---- MODULE Spec2Model ----
(***************************************************************************)
(* Model of the schedule calculator of runalone-project-manager            *)
(* (TimelineCalculator in core/TimelineCalculator.ts, the date helpers of  *)
(* utils/DateUtils.ts and the ids of core/TaskModel.ts) and of the task    *)
(* lines of its outline parser (Parser in core/Parser.ts).                 *)
(*                                                                         *)
(* Dates are instants counted in ticks, TicksPerDay ticks to a day; tick 0 *)
(* is 2025-01-01T00:00Z.  The outlines the calculator is run on carry      *)
(* @start: dates that are midnights, multiples of TicksPerDay; new Date()  *)
(* is any tick.  addDays is taken in a time zone without daylight-saving   *)
(* changes.                                                                *)
(* Tasks of a project are addressed by their 1-based position in           *)
(* flatTasks, which is the value an @after:N modifier holds; parent and    *)
(* children are such positions, 0 standing for a null parent.              *)
(* An optional value (explicitStartDate?, newDuration?) is a sequence of   *)
(* length 0 or 1.                                                          *)
(***************************************************************************)
EXTENDS Integers, Sequences, FiniteSets, TLC

VARIABLES
    parsed,         \* the ParseResult handed to calculate
    parser,         \* <<>>, or the task line the Parser is taking through a round trip
    clock,          \* <<>>: new Date() reads the wall clock; <<n>>: it is fixed at n;
                    \* <<"after", n>>: the wall clock, whose last reading was n
    pc,             \* "build" | "resolve" | "done" | "drag" | "dragged" |
                    \* "parents" | "overflow"
    pi,             \* 1-based position of the project calculate is working on
    tasks,          \* flatTasks of that project (calculateProject's local)
    rootTasks,      \* rootTasks of that project
    resolved,       \* calculateDates' set resolved
    resolving,      \* calculateDates' set resolving
    stack,          \* resolveTask's activation records, innermost last
    completions,    \* how often resolveTask ran to completion, per task
    projects,       \* calculate's result so far: the committed forest
    conflicts,      \* calculate's conflict list
    globalEndDate,  \* calculate's globalEndDate
    previous,       \* result of the calculate call before a reload, if any
    dragProjects,   \* projectsCopy of the last recalculateFromDrag
    updatedTask,    \* <<project, task>> position of updatedTask, or <<>>
    dragArgs,       \* the arguments of the last recalculateFromDrag, or <<>>
    parentsToUpdate, \* the call of getParentTasksToUpdate under way, or <<>>
    pstack,         \* propagateDependencyChanges' activation records
    undoManager,    \* the UndoManager: its two stacks and its last call
    fileSync,       \* the FileSync: its flag, timers and operations under way
    vault,          \* the lines of the projects file, <<>> when there is none
    view            \* the TimelineView: its selection, its modal, its settings

vars == <<parsed, parser, clock, pc, pi, tasks, rootTasks, resolved, resolving, stack,
          completions, projects, conflicts, globalEndDate, previous,
          dragProjects, updatedTask, dragArgs, parentsToUpdate, pstack,
          undoManager, fileSync, vault, view>>

\* the editing session around the Parser and the TimelineCalculator
sessionVars == <<undoManager, fileSync, vault, view>>

(***************************************************************************)
(* Bounds of the model.                                                    *)
(***************************************************************************)
TicksPerDay == 2      \* resolution of the clock
MaxTasks == 3         \* tasks per project
MaxLevel == 3         \* marker count of a task
MaxDuration == 1      \* stated duration of a task, in days
MaxFeatures == 3      \* modifiers and non-default fields per project
MaxPairFeatures == 1  \* the same, per project of a two-project outline
MaxStack == 6         \* activation records the engine's call stack holds
MaxReloads == 1       \* reloads of an unchanged outline
MaxModifiers == 2     \* modifier tokens on a task line handed to the Parser
MaxChars == 2         \* characters of a color or note value on such a line
MaxItems == 3         \* items after the markers of a line of text
MaxUpdates == 2       \* update operations a FileSync is asked for
MaxCommits == 1       \* drags committed and not undone, per session
MaxEvents == 3        \* what the user does per session: a drag, an undo, a redo,
                      \* a selection, a change of the settings or closing the
                      \* view counts 1, a refresh or another edit 2
MaxSaves == 1         \* saves of the settings that saveData has not answered
MaxHandlers == 2      \* a handler starts while fewer operations await the vault
MaxTimers == 1        \* and while fewer flag-reset timers are pending

Day(n) == n * TicksPerDay

(***************************************************************************)
(* utils/DateUtils.ts                                                      *)
(***************************************************************************)
addDays(date, days) == date + days * TicksPerDay

cloneDate(date) == date

SetMin(S) == CHOOSE x \in S : \A y \in S : x <= y

SetMax(S) == CHOOSE x \in S : \A y \in S : x >= y

Range(s) == {s[k] : k \in 1..Len(s)}

minDate(dates) == SetMin(Range(dates))

maxDate(dates) == SetMax(Range(dates))

\* Math.ceil(a / b) for b > 0
Ceil(a, b) == IF a >= 0 THEN (a + b - 1) \div b ELSE -((-a) \div b)

Last(s) == s[Len(s)]

Pop(s) == SubSeq(s, 1, Len(s) - 1)

(***************************************************************************)
(* core/TaskModel.ts: ids.  project-<i> is <<i>>, project-<i>-task-<j> is  *)
(* <<i, j>>, i and j counted from 0 as in the source.                      *)
(***************************************************************************)
generateProjectId(index) == <<index>>

\* an id that forgets the position
generateTaskId_ProjectOnly(projectId, index) == projectId \o <<0>>

generateTaskId(projectId, index) == projectId \o <<index>>

(***************************************************************************)
(* TimelineCalculator.createTask, lines 443-464.  new Date() is read twice, *)
(* for startDate and then for endDate: now holds the two readings.         *)
(***************************************************************************)
\* a task that never takes its explicit start date
createTask_NeverManual(p, projectId, index, now) ==
    [id |-> generateTaskId(projectId, index),
     level |-> p.level,
     duration |-> p.duration,
     startDate |-> now[1],
     endDate |-> now[2],
     dependencies |-> p.dependencies,
     isMilestone |-> p.isMilestone,
     explicitStartDate |-> p.explicitStartDate,
     manuallyPositioned |-> FALSE,
     children |-> <<>>,
     parent |-> 0,
     projectId |-> projectId,
     indexInProject |-> index]

createTask(p, projectId, index, now) ==
    [id |-> generateTaskId(projectId, index),
     level |-> p.level,
     duration |-> p.duration,
     startDate |-> now[1],
     endDate |-> now[2],
     dependencies |-> p.dependencies,
     isMilestone |-> p.isMilestone,
     explicitStartDate |-> p.explicitStartDate,
     manuallyPositioned |-> p.explicitStartDate # <<>>,
     children |-> <<>>,
     parent |-> 0,
     projectId |-> projectId,
     indexInProject |-> index]

(***************************************************************************)
(* TimelineCalculator.calculateProject, the forEach over parsed.tasks:     *)
(* acc is [flat, roots, st], st the taskStack of positions.  BuildTasks    *)
(* binds the forest of the first n - 1 tasks to prev, so that it is        *)
(* computed once for the n-th.  nows holds the readings of new Date() in   *)
(* their order, two for every task.                                        *)
(***************************************************************************)
\* a stack that keeps a task of the same level on top
RECURSIVE PopWhileAbove(_, _, _)
PopWhileAbove(flat, st, level) ==
    IF Len(st) > 0 /\ flat[Last(st)].level > level
    THEN PopWhileAbove(flat, Pop(st), level)
    ELSE st

RECURSIVE PopWhileNotBelow(_, _, _)
PopWhileNotBelow(flat, st, level) ==
    IF Len(st) > 0 /\ flat[Last(st)].level >= level
    THEN PopWhileNotBelow(flat, Pop(st), level)
    ELSE st

Attach(acc, task) ==
    LET k == Len(acc.flat) + 1
        st == PopWhileNotBelow(acc.flat, acc.st, task.level)
    IN  IF Len(st) > 0
        THEN LET par == Last(st)
                 withTask == Append(acc.flat, [task EXCEPT !.parent = par])
             IN  [flat |-> [withTask EXCEPT ![par].children = Append(@, k)],
                  roots |-> acc.roots,
                  st |-> Append(st, k)]
        ELSE [flat |-> Append(acc.flat, task),
              roots |-> Append(acc.roots, k),
              st |-> Append(st, k)]

RECURSIVE BuildTasks(_, _, _, _)
BuildTasks(ptasks, projectId, nows, n) ==
    IF n = 0
    THEN [flat |-> <<>>, roots |-> <<>>, st |-> <<>>]
    ELSE CHOOSE acc \in {Attach(prev, createTask(ptasks[n], projectId, n - 1,
                                                 <<nows[2 * n - 1], nows[2 * n]>>)) :
                            prev \in {BuildTasks(ptasks, projectId, nows, n - 1)}} : TRUE

(***************************************************************************)
(* TimelineCalculator.findPreviousSibling: the position of the sibling, or *)
(* 0 where the source returns -1.                                          *)
(***************************************************************************)
RECURSIVE ScanBack(_, _, _)
ScanBack(flat, k, cur) ==
    IF k < 1 THEN 0
    ELSE IF flat[k].parent = cur.parent /\ flat[k].level = cur.level THEN k
    ELSE IF flat[k].level < cur.level THEN 0
    ELSE ScanBack(flat, k - 1, cur)

findPreviousSibling(flat, currentIndex, currentTask) ==
    IF currentTask.parent = 0 THEN 0
    ELSE ScanBack(flat, currentIndex - 1, currentTask)

(***************************************************************************)
(* TimelineCalculator.adjustParentDates                                    *)
(***************************************************************************)
RECURSIVE adjustRecursive(_, _)
RECURSIVE AdjustAll(_, _, _)

AdjustAll(flat, idxs, k) ==
    IF k > Len(idxs) THEN flat
    ELSE AdjustAll(adjustRecursive(flat, idxs[k]), idxs, k + 1)

SpanDuration_NoFloor(startDate, endDate) == Ceil(endDate - startDate, TicksPerDay)

SpanDuration(startDate, endDate) ==
    LET durationDays == Ceil(endDate - startDate, TicksPerDay)
    IN  IF durationDays > 1 THEN durationDays ELSE 1

\* a parent reconciled before its children are
adjustRecursive_ParentFirst(flat, t) ==
    IF Len(flat[t].children) = 0 THEN flat
    ELSE LET ch == flat[t].children
             earliestChildStart == minDate([k \in 1..Len(ch) |-> flat[ch[k]].startDate])
             latestChildEnd == maxDate([k \in 1..Len(ch) |-> flat[ch[k]].endDate])
         IN  AdjustAll([flat EXCEPT
                           ![t].startDate = earliestChildStart,
                           ![t].endDate = latestChildEnd,
                           ![t].duration = SpanDuration(earliestChildStart, latestChildEnd)],
                       ch, 1)

adjustRecursive(flat, t) ==
    IF Len(flat[t].children) = 0 THEN flat
    ELSE LET f == AdjustAll(flat, flat[t].children, 1)
             ch == f[t].children
             earliestChildStart == minDate([k \in 1..Len(ch) |-> f[ch[k]].startDate])
             latestChildEnd == maxDate([k \in 1..Len(ch) |-> f[ch[k]].endDate])
         IN  [f EXCEPT ![t].startDate = earliestChildStart,
                       ![t].endDate = latestChildEnd,
                       ![t].duration = SpanDuration(earliestChildStart, latestChildEnd)]

RootsOf(flat) == SelectSeq([k \in 1..Len(flat) |-> k], LAMBDA k : flat[k].parent = 0)

adjustParentDates(flat) == AdjustAll(flat, RootsOf(flat), 1)

(***************************************************************************)
(* TimelineCalculator.detectConflicts                                      *)
(***************************************************************************)
InRange(depIndex, n) == depIndex - 1 >= 0 /\ depIndex - 1 < n

\* line 606
StartsBefore_OrAt(task, depTask) == task.startDate <= depTask.endDate

StartsBefore(task, depTask) == task.startDate < depTask.endDate

RECURSIVE ConflictsOfTask(_, _, _)
ConflictsOfTask(flat, t, k) ==
    IF k > Len(flat[t].dependencies) THEN <<>>
    ELSE LET depIndex == flat[t].dependencies[k]
             rest == ConflictsOfTask(flat, t, k + 1)
         IN  IF InRange(depIndex, Len(flat))
                /\ StartsBefore(flat[t], flat[depIndex])
             THEN <<[taskId |-> flat[t].id,
                     type |-> "dependency_violation",
                     relatedTaskIds |-> <<flat[depIndex].id>>]>> \o rest
             ELSE rest

RECURSIVE ConflictsFrom(_, _)
ConflictsFrom(flat, t) ==
    IF t > Len(flat) THEN <<>>
    ELSE ConflictsOfTask(flat, t, 1) \o ConflictsFrom(flat, t + 1)

detectConflicts(project) == ConflictsFrom(project.flatTasks, 1)

(***************************************************************************)
(* The ParseResults calculate is run on.  A task counts one feature for a  *)
(* level other than 1, one for a duration other than 1, one per @after     *)
(* and one for @start; an outline without a @start: line, whose global     *)
(* start date is the parser's new Date(), counts one more.  An outline     *)
(* holds at most MaxFeatures of them.                                      *)
(***************************************************************************)
Levels == 1..MaxLevel

Durations == 0..MaxDuration

ExplicitDates == {<<>>, <<Day(0)>>, <<Day(2)>>}

\* @start: 2025-01-02, and new Date() half a day later
StatedStart == Day(1)

DefaultStart == Day(1) + 1

GlobalStarts == {StatedStart, DefaultStart}

Allowance(g, budget) == IF g = StatedStart THEN budget ELSE budget - 1

\* the instants new Date() takes: half a day before the stated start, the
\* instant the parser took for an outline without a @start: line, a day later
NowSet == {Day(0) + 1, DefaultStart, Day(2) + 1}

\* what new Date() may return, and the clock after it has returned now
Readings(c) ==
    IF c = <<>> THEN NowSet
    ELSE IF Len(c) = 1 THEN {c[1]}
    ELSE {n \in NowSet : n >= c[2]}

AfterReading(c, now) == IF Len(c) = 2 THEN <<"after", now>> ELSE c

\* what n calls of new Date() in a row may return: the clock does not go
\* back between them
ReadingsInTurn(c, n) ==
    IF n = 0 THEN {<<>>}
    ELSE {nows \in [1..n -> Readings(c)] : \A k \in 1..(n - 1) : nows[k] <= nows[k + 1]}

AfterReadings(c, nows) == IF nows = <<>> THEN c ELSE AfterReading(c, Last(nows))

DepLists(n) ==
    {<<>>} \cup {<<a>> : a \in 0..(n + 1)}
           \cup {<<a, b>> : a \in 0..(n + 1), b \in 0..(n + 1)}

Features(t) ==
    (IF t.level # 1 THEN 1 ELSE 0) + (IF t.duration # 1 THEN 1 ELSE 0)
    + Len(t.dependencies) + Len(t.explicitStartDate)

ParsedTasks(n, budget) ==
    {t \in [level : Levels, duration : Durations, dependencies : DepLists(n),
            explicitStartDate : ExplicitDates, isMilestone : {FALSE}] :
        Features(t) <= budget}

RECURSIVE TaskSeqs(_, _, _)
TaskSeqs(n, len, budget) ==
    IF len = 0 THEN {<<>>}
    ELSE UNION {{Append(s, t) : s \in TaskSeqs(n, len - 1, budget - Features(t))} :
                t \in ParsedTasks(n, budget)}

ParsedProjects(maxTasks, budget) ==
    UNION {{[tasks |-> ts] : ts \in TaskSeqs(n, n, budget)} : n \in 0..maxTasks}

PlainTask(level, duration, deps, explicit, milestone) ==
    [level |-> level, duration |-> duration, dependencies |-> deps,
     explicitStartDate |-> explicit, isMilestone |-> milestone]

\* spec.md, section 8: the conflict scenario
ConflictScenario ==
    [globalStartDate |-> Day(0),
     projects |-> <<[tasks |-> <<PlainTask(1, 5, <<>>, <<>>, FALSE),
                                PlainTask(1, 1, <<1>>, <<Day(2)>>, FALSE)>>]>>]

\* spec.md, section 8: the end-to-end scenario
EndToEndScenario ==
    [globalStartDate |-> Day(0),
     projects |-> <<[tasks |-> <<PlainTask(1, 5, <<>>, <<>>, FALSE),
                                PlainTask(1, 3, <<1>>, <<>>, FALSE),
                                PlainTask(2, 2, <<>>, <<>>, FALSE),
                                PlainTask(1, 1, <<2>>, <<>>, TRUE)>>]>>]

Inputs ==
    UNION {{[globalStartDate |-> g, projects |-> <<p>>] :
               p \in ParsedProjects(MaxTasks, Allowance(g, MaxFeatures))} :
           g \in GlobalStarts}
    \cup {[globalStartDate |-> g, projects |-> <<p, q>>] :
        g \in {StatedStart}, p \in ParsedProjects(1, MaxPairFeatures),
        q \in ParsedProjects(1, MaxPairFeatures)}
    \cup {[globalStartDate |-> g, projects |-> <<>>] : g \in GlobalStarts}
    \cup {ConflictScenario, EndToEndScenario}

(***************************************************************************)
(* TimelineCalculator.calculate, entry: lines 366-369                      *)
(***************************************************************************)
InitWith(inputs, clocks, files) ==
    /\ parsed \in inputs
    /\ parser = <<>>
    /\ clock \in clocks
    /\ pc = IF Len(parsed.projects) = 0 THEN "done" ELSE "build"
    /\ pi = 1
    /\ tasks = <<>>
    /\ rootTasks = <<>>
    /\ resolved = {}
    /\ resolving = {}
    /\ stack = <<>>
    /\ completions = <<>>
    /\ projects = <<>>
    /\ conflicts = <<>>
    /\ globalEndDate = cloneDate(parsed.globalStartDate)
    /\ previous = <<>>
    /\ dragProjects = <<>>
    /\ updatedTask = <<>>
    /\ dragArgs = <<>>
    /\ parentsToUpdate = <<>>
    /\ pstack = <<>>
    /\ undoManager = [undoStack |-> <<>>, redoStack |-> <<>>,
                      called |-> "new", shifted |-> FALSE, returned |-> <<>>]
    /\ fileSync = [isUpdatingFile |-> FALSE, resets |-> 0, debounceTimer |-> FALSE,
                   updates |-> <<>>, started |-> 0, onFileChanged |-> FALSE,
                   watchedFile |-> FALSE, callbacks |-> FALSE]
    /\ vault \in files
    /\ view = [opened |-> FALSE, closed |-> FALSE, autoRefresh |-> TRUE, saving |-> 0,
               selectedTaskId |-> <<>>, selectedProjectId |-> <<>>, modal |-> <<>>,
               events |-> 0]

\* no projects file yet
InitOn(inputs, clocks) == InitWith(inputs, clocks, {<<>>})

Init == InitOn(Inputs, {<<>>})

dragVars == <<dragProjects, updatedTask, dragArgs, parentsToUpdate, pstack>>

outVars == <<projects, conflicts, globalEndDate, pi>>

(***************************************************************************)
(* calculateProject: createTask and the level stack for every parsed task, *)
(* then calculateDates' two empty sets.  Every createTask reads new Date()  *)
(* twice, so a project of n tasks takes 2n readings, each any instant not  *)
(* before the one read last; when the global start date is itself the      *)
(* parser's new Date() the readings are that instant or later ones: parse  *)
(* and calculate follow each other in processContent.                      *)
(***************************************************************************)
Build ==
    /\ pc = "build"
    /\ \E nows \in ReadingsInTurn(clock, 2 * Len(parsed.projects[pi].tasks)) :
        /\ IF parsed.globalStartDate % TicksPerDay = 0 \/ nows = <<>> THEN TRUE
           ELSE nows[1] >= parsed.globalStartDate
        /\ clock' = AfterReadings(clock, nows)
        /\ \E b \in {BuildTasks(parsed.projects[pi].tasks, generateProjectId(pi - 1),
                                nows, Len(parsed.projects[pi].tasks))} :
               /\ tasks' = b.flat
               /\ rootTasks' = b.roots
               /\ completions' = [k \in 1..Len(b.flat) |-> 0]
    /\ resolved' = {}
    /\ resolving' = {}
    /\ stack' = <<>>
    /\ pc' = "resolve"
    /\ UNCHANGED <<sessionVars, parser, parsed, previous, outVars, dragVars>>

(***************************************************************************)
(* resolveTask.  A call on a task that is resolved or being resolved       *)
(* returns at once (lines 471-472) and is no step of the model; Call is    *)
(* the entry of every other call: a manually positioned task is completed  *)
(* on the spot (lines 479-485), any other gets an activation record with   *)
(* startDate = cloneDate(globalStartDate) (line 487).                      *)
(***************************************************************************)
NeedsResolve_NoCycleGuard(index) == ~(index \in resolved)

NeedsResolve(index) == ~(index \in resolved) /\ ~(index \in resolving)

\* line 487
CandidateStart_Placeholder(task, globalStartDate) == task.startDate

CandidateStart(task, globalStartDate) == cloneDate(globalStartDate)

Call(index) ==
    IF Len(stack) >= MaxStack
    THEN /\ pc' = "overflow"
         /\ UNCHANGED <<tasks, resolved, resolving, stack, completions>>
    ELSE /\ pc' = pc
         /\ IF tasks[index].explicitStartDate # <<>> /\ tasks[index].manuallyPositioned
            THEN /\ tasks' = [tasks EXCEPT
                        ![index].startDate = cloneDate(tasks[index].explicitStartDate[1]),
                        ![index].endDate = addDays(tasks[index].explicitStartDate[1],
                                                   tasks[index].duration)]
                 /\ resolved' = resolved \cup {index}
                 /\ completions' = [completions EXCEPT ![index] = @ + 1]
                 /\ UNCHANGED <<resolving, stack>>
            ELSE /\ resolving' = resolving \cup {index}
                 /\ stack' = Append(stack, [index |-> index, k |-> 1,
                                            startDate |-> CandidateStart(tasks[index],
                                                              parsed.globalStartDate)])
                 /\ UNCHANGED <<tasks, resolved, completions>>

Top == Last(stack)

TopTask == tasks[Top.index]

DepPhase == Top.k <= Len(TopTask.dependencies)

\* an index outside the list taken as the nearest task of the list
CurDep_Clamped ==
    LET depIndex == TopTask.dependencies[Top.k]
    IN  IF depIndex > Len(tasks) THEN Len(tasks)
        ELSE IF depIndex < 1 THEN 1 ELSE depIndex

CurDep == TopTask.dependencies[Top.k]

\* The task the innermost activation calls resolveTask on next, when that
\* call does not return at once; 0 when there is none.
Pending ==
    IF DepPhase
    THEN IF InRange(CurDep, Len(tasks)) /\ NeedsResolve(CurDep) THEN CurDep ELSE 0
    ELSE IF TopTask.parent = 0 THEN 0
    ELSE IF NeedsResolve(TopTask.parent) THEN TopTask.parent
    ELSE LET siblingIndex == findPreviousSibling(tasks, Top.index, TopTask)
         IN  IF siblingIndex >= 1 /\ ~TopTask.manuallyPositioned
                /\ NeedsResolve(siblingIndex)
             THEN siblingIndex ELSE 0

AfterDependency_Ignored(startDate, depTask) == startDate

\* lines 495-497: the candidate after reading one dependency
AfterDependency(startDate, depTask) ==
    IF depTask.endDate > startDate THEN cloneDate(depTask.endDate) ELSE startDate

\* lines 502-521: the candidate after the parent and the previous sibling
AfterParent(flat, index, startDate) ==
    IF flat[index].parent = 0 THEN startDate
    ELSE LET siblingIndex == findPreviousSibling(flat, index, flat[index])
         IN  IF siblingIndex >= 1 /\ ~flat[index].manuallyPositioned
             THEN IF flat[siblingIndex].endDate > startDate
                  THEN cloneDate(flat[siblingIndex].endDate) ELSE startDate
             ELSE IF flat[flat[index].parent].startDate > startDate
                  THEN cloneDate(flat[flat[index].parent].startDate) ELSE startDate

\* calculateDates, the for loop: the next task resolveTask does not skip
ResolveLoop ==
    /\ pc = "resolve"
    /\ stack = <<>>
    /\ \E index \in 1..Len(tasks) :
        /\ NeedsResolve(index)
        /\ \A j \in 1..(index - 1) : ~NeedsResolve(j)
        /\ Call(index)
    /\ UNCHANGED <<sessionVars, clock, parser, parsed, rootTasks, previous, outVars, dragVars>>

\* a recursive call: on a dependency, on the parent or on the previous sibling
ResolveCall ==
    /\ pc = "resolve"
    /\ stack # <<>>
    /\ Pending # 0
    /\ Call(Pending)
    /\ UNCHANGED <<sessionVars, clock, parser, parsed, rootTasks, previous, outVars, dragVars>>

\* lines 490-499, one turn of the loop once the call on the dependency is back
ResolveDep ==
    /\ pc = "resolve"
    /\ stack # <<>>
    /\ DepPhase
    /\ Pending = 0
    /\ stack' = [stack EXCEPT ![Len(stack)] =
                    [@ EXCEPT !.k = @ + 1,
                              !.startDate = IF InRange(CurDep, Len(tasks))
                                            THEN AfterDependency(@, tasks[CurDep])
                                            ELSE @]]
    /\ UNCHANGED <<sessionVars, clock, parser, parsed, pc, tasks, rootTasks, resolved, resolving, completions,
                   previous, outVars, dragVars>>

\* lines 501-527
ResolveFinish ==
    /\ pc = "resolve"
    /\ stack # <<>>
    /\ ~DepPhase
    /\ Pending = 0
    /\ LET startDate == AfterParent(tasks, Top.index, Top.startDate)
       IN  tasks' = [tasks EXCEPT ![Top.index].startDate = startDate,
                                  ![Top.index].endDate = addDays(startDate, TopTask.duration)]
    /\ resolving' = resolving \ {Top.index}
    /\ resolved' = resolved \cup {Top.index}
    /\ completions' = [completions EXCEPT ![Top.index] = @ + 1]
    /\ stack' = Pop(stack)
    /\ UNCHANGED <<sessionVars, clock, parser, parsed, pc, rootTasks, previous, outVars, dragVars>>

(***************************************************************************)
(* The end of calculateDates (adjustParentDates), of calculateProject (the *)
(* project's bounds) and of calculate's turn for the project               *)
(* (detectConflicts, globalEndDate).                                       *)
(***************************************************************************)
\* the bounds taken from the first and the last task of the list
ProjectOf_FirstAndLast(flat, roots, projectId, globalStartDate) ==
    [id |-> projectId,
     tasks |-> roots,
     flatTasks |-> flat,
     startDate |-> IF Len(flat) > 0 THEN flat[1].startDate ELSE globalStartDate,
     endDate |-> IF Len(flat) > 0 THEN flat[Len(flat)].endDate ELSE globalStartDate]

ProjectOf(flat, roots, projectId, globalStartDate) ==
    [id |-> projectId,
     tasks |-> roots,
     flatTasks |-> flat,
     startDate |-> IF Len(flat) > 0
                   THEN minDate([k \in 1..Len(flat) |-> flat[k].startDate])
                   ELSE globalStartDate,
     endDate |-> IF Len(flat) > 0
                 THEN maxDate([k \in 1..Len(flat) |-> flat[k].endDate])
                 ELSE globalStartDate]

CalculateProjectEnd ==
    /\ pc = "resolve"
    /\ stack = <<>>
    /\ \A index \in 1..Len(tasks) : ~NeedsResolve(index)
    /\ \E flat \in {adjustParentDates(tasks)} :
       \E project \in {ProjectOf(flat, rootTasks, generateProjectId(pi - 1),
                                parsed.globalStartDate)} :
           /\ projects' = Append(projects, project)
           /\ conflicts' = conflicts \o detectConflicts(project)
           /\ globalEndDate' = IF project.endDate > globalEndDate
                               THEN cloneDate(project.endDate) ELSE globalEndDate
    /\ pi' = pi + 1
    /\ pc' = IF pi = Len(parsed.projects) THEN "done" ELSE "build"
    /\ tasks' = <<>>
    /\ rootTasks' = <<>>
    /\ resolved' = {}
    /\ resolving' = {}
    /\ completions' = <<>>
    /\ UNCHANGED <<sessionVars, clock, parser, parsed, stack, previous, dragVars>>

(***************************************************************************)
(* TimelineCalculator.rebuildHierarchy and deepCopyProjects                *)
(***************************************************************************)
RECURSIVE PopStack(_, _, _)
PopStack(flat, taskStack, level) ==
    IF Len(taskStack) > 0 /\ flat[Last(taskStack)].level >= level
    THEN PopStack(flat, Pop(taskStack), level)
    ELSE taskStack

RECURSIVE RebuildFrom(_, _, _)
RebuildFrom(project, k, taskStack) ==
    IF k > Len(project.flatTasks) THEN project
    ELSE LET st == PopStack(project.flatTasks, taskStack, project.flatTasks[k].level)
         IN  IF Len(st) > 0
             THEN RebuildFrom([project EXCEPT
                                  !.flatTasks[k].parent = Last(st),
                                  !.flatTasks[Last(st)].children = Append(@, k)],
                              k + 1, Append(st, k))
             ELSE RebuildFrom([project EXCEPT !.tasks = Append(@, k)],
                              k + 1, Append(st, k))

rebuildHierarchy(project) == RebuildFrom(project, 1, <<>>)

CopyTask(task) ==
    [task EXCEPT !.startDate = cloneDate(@),
                 !.endDate = cloneDate(@),
                 !.explicitStartDate = IF @ # <<>> THEN <<cloneDate(@[1])>> ELSE <<>>,
                 !.children = <<>>,
                 !.parent = 0]

deepCopyProjects(ps) ==
    [p \in 1..Len(ps) |->
        rebuildHierarchy([ps[p] EXCEPT
            !.startDate = cloneDate(@),
            !.endDate = cloneDate(@),
            !.flatTasks = [k \in 1..Len(@) |-> CopyTask(@[k])],
            !.tasks = <<>>])]

(***************************************************************************)
(* TimelineCalculator.recalculateFromDrag                                  *)
(***************************************************************************)
DragStarts == {Day(0), Day(3)}

DragDurations == {<<>>, <<MaxDuration + 1>>}

\* the ids a caller may pass: every task of the forest, and one that is absent
TaskIds ==
    UNION {{projects[p].flatTasks[k].id : k \in 1..Len(projects[p].flatTasks)} :
           p \in 1..Len(projects)}
    \cup {generateTaskId(generateProjectId(Len(projects)), 0)}

Holds(project, taskId) ==
    \E k \in 1..Len(project.flatTasks) : project.flatTasks[k].id = taskId

\* the project the for loop of lines 633-635 stops at, 0 if it finds none
FindProject(ps, taskId) ==
    IF \E p \in 1..Len(ps) : Holds(ps[p], taskId)
    THEN SetMin({p \in 1..Len(ps) : Holds(ps[p], taskId)})
    ELSE 0

\* flatTasks.find(t => t.id === taskId)
FindTask(project, taskId) ==
    SetMin({k \in 1..Len(project.flatTasks) : project.flatTasks[k].id = taskId})

\* a drag that never takes the new duration
Dragged_KeepsDuration(task, newStartDate, newDuration) ==
    [task EXCEPT !.startDate = newStartDate,
                 !.explicitStartDate = <<cloneDate(newStartDate)>>,
                 !.manuallyPositioned = TRUE,
                 !.endDate = addDays(newStartDate, task.duration)]

\* lines 636-642
Dragged(task, newStartDate, newDuration) ==
    LET duration == IF newDuration # <<>> THEN newDuration[1] ELSE task.duration
    IN  [task EXCEPT !.startDate = newStartDate,
                     !.explicitStartDate = <<cloneDate(newStartDate)>>,
                     !.manuallyPositioned = TRUE,
                     !.duration = duration,
                     !.endDate = addDays(newStartDate, duration)]

(***************************************************************************)
(* Object identity.  The forest handed to recalculateFromDrag is a graph   *)
(* of objects: its project objects, their tasks arrays, the task objects   *)
(* and their children arrays.  An object of the copy is named by the       *)
(* object of the input it is, or is New.  recalculateFromDrag writes by    *)
(* assigning to fields of task and project objects of the copy (lines      *)
(* 636-641, 650-651, 664-665, 571-577) and rebuildHierarchy by assigning   *)
(* parent and pushing to the children and tasks arrays (lines 702-706);    *)
(* no Date and no dependency array is changed in place.  A write to an     *)
(* object the copy shares with the input shows in the input.               *)
(***************************************************************************)
New == <<>>

TaskObject(p, k) == <<"task", p, k>>

ChildrenArray(p, k) == <<"children", p, k>>

ProjectObject(p) == <<"project", p>>

TasksArray(p) == <<"tasks", p>>

\* a copy whose flatTasks is a new array of the task objects of the input
CopiedObjects_SharedTasks(ps) ==
    [p \in 1..Len(ps) |->
        [project |-> New, tasks |-> New,
         task |-> [k \in 1..Len(ps[p].flatTasks) |->
                      [object |-> TaskObject(p, k), children |-> New]]]]

\* deepCopyProjects, lines 672-691, by the objects its expressions make:
\* the spread { ...project, ... } of line 673 and the spread { ...task, ... }
\* of line 677 make a new object each, tasks: [] (line 686) and
\* children: [] (line 683) a new array each
CopiedObjects(ps) ==
    [p \in 1..Len(ps) |->
        [project |-> New, tasks |-> New,
         task |-> [k \in 1..Len(ps[p].flatTasks) |->
                      [object |-> New, children |-> New]]]]

\* the task k of project p of the input after rebuildHierarchy has run on
\* the copy, rebuilt being that task of the copy
TaskRebuilt(task, rebuilt, object, p, k) ==
    [task EXCEPT
        !.parent = IF object.object = TaskObject(p, k) THEN rebuilt.parent ELSE @,
        !.children = IF object.children = ChildrenArray(p, k)
                     THEN @ \o rebuilt.children ELSE @]

ProjectRebuilt(project, rebuilt, objects, p) ==
    [project EXCEPT
        !.tasks = IF objects.tasks = TasksArray(p) THEN @ \o rebuilt.tasks ELSE @,
        !.flatTasks = [k \in 1..Len(@) |->
                          TaskRebuilt(@[k], rebuilt.flatTasks[k], objects.task[k], p, k)]]

\* the input once deepCopyProjects has returned the copy
InputRebuilt(input, copy, objects) ==
    [p \in 1..Len(input) |-> ProjectRebuilt(input[p], copy[p], objects[p], p)]

\* the task k of project p of the input after the fields of that task of
\* the copy have been assigned, written being the task of the copy
TaskAfter(task, written, object, p, k) ==
    IF object.object = TaskObject(p, k)
    THEN [task EXCEPT !.startDate = written.startDate,
                      !.endDate = written.endDate,
                      !.duration = written.duration,
                      !.explicitStartDate = written.explicitStartDate,
                      !.manuallyPositioned = written.manuallyPositioned]
    ELSE task

ProjectAfter(project, written, objects, p) ==
    [project EXCEPT
        !.startDate = IF objects.project = ProjectObject(p) THEN written.startDate ELSE @,
        !.endDate = IF objects.project = ProjectObject(p) THEN written.endDate ELSE @,
        !.flatTasks = [k \in 1..Len(@) |->
                          TaskAfter(@[k], written.flatTasks[k], objects.task[k], p, k)]]

\* the forest handed to recalculateFromDrag after a write to a task or to
\* the bounds of project p of the copy, written being that project after
\* the write
InputAfter(input, p, written) ==
    [input EXCEPT ![p] = ProjectAfter(@, written, CopiedObjects(input)[p], p)]

\* lines 630-645: the copy, the dragged task, and the call of
\* propagateDependencyChanges on it
DragStart ==
    /\ pc = "done"
    /\ \E taskId \in TaskIds, newStartDate \in DragStarts, newDuration \in DragDurations :
        LET projectsCopy == deepCopyProjects(projects)
            p == FindProject(projectsCopy, taskId)
        IN  /\ dragArgs' = <<[taskId |-> taskId, newStartDate |-> newStartDate,
                               newDuration |-> newDuration]>>
            /\ IF p = 0
               THEN /\ dragProjects' = projectsCopy
                    /\ updatedTask' = <<>>
                    /\ pstack' = <<>>
                    /\ pc' = "dragged"
                    /\ projects' = InputRebuilt(projects, projectsCopy,
                                                CopiedObjects(projects))
               ELSE LET t == FindTask(projectsCopy[p], taskId)
                        written == [projectsCopy EXCEPT ![p].flatTasks[t] =
                                       Dragged(@, newStartDate, newDuration)]
                    IN  /\ dragProjects' = written
                        /\ updatedTask' = <<p, t>>
                        /\ pstack' = <<[changed |-> t, pos |-> 1]>>
                        /\ pc' = "drag"
                        /\ projects' = InputAfter(InputRebuilt(projects, projectsCopy,
                                                              CopiedObjects(projects)),
                                                 p, written[p])
    /\ UNCHANGED <<sessionVars, clock, parser, parsed, parentsToUpdate, pi, tasks, rootTasks, resolved, resolving, stack,
                   completions, conflicts, globalEndDate, previous>>

(***************************************************************************)
(* TimelineCalculator.propagateDependencyChanges: an activation record is  *)
(* the changed task and the position the for loop has reached.             *)
(***************************************************************************)
DragFlat == dragProjects[updatedTask[1]].flatTasks

\* a test that any non-empty dependency list passes
Includes_Any(s, x) == Len(s) > 0

Includes(s, x) == \E k \in 1..Len(s) : s[k] = x

\* the tasks from position pos on that lines 662-663 select
Dependents(flat, changed, pos) ==
    {j \in pos..Len(flat) :
        /\ Includes(flat[j].dependencies, flat[changed].indexInProject + 1)
        /\ flat[j].startDate < flat[changed].endDate}

\* lines 664-665
Shifted(task, changedTask) ==
    [task EXCEPT !.startDate = cloneDate(changedTask.endDate),
                 !.endDate = addDays(changedTask.endDate, task.duration)]

\* the loop runs up to the next dependent, moves it and calls itself on it
PropagateShift ==
    /\ pc = "drag"
    /\ LET frame == Last(pstack)
           found == Dependents(DragFlat, frame.changed, frame.pos)
       IN  /\ found # {}
           /\ IF Len(pstack) >= MaxStack
              THEN /\ pc' = "overflow"
                   /\ UNCHANGED <<dragProjects, pstack, projects>>
              ELSE LET j == SetMin(found)
                       written == [dragProjects EXCEPT
                                      ![updatedTask[1]].flatTasks[j] =
                                          Shifted(@, DragFlat[frame.changed])]
                   IN  /\ dragProjects' = written
                       /\ pstack' = Append([pstack EXCEPT ![Len(pstack)].pos = j + 1],
                                           [changed |-> j, pos |-> 1])
                       /\ pc' = pc
                       /\ projects' = InputAfter(projects, updatedTask[1],
                                                 written[updatedTask[1]])
    /\ UNCHANGED <<sessionVars, clock, parser, parsed, parentsToUpdate, pi, tasks, rootTasks, resolved, resolving, stack,
                   completions, conflicts, globalEndDate, previous,
                   updatedTask, dragArgs>>

\* the loop of an inner call runs out: it returns to its caller
PropagateReturn ==
    /\ pc = "drag"
    /\ Len(pstack) > 1
    /\ Dependents(DragFlat, Last(pstack).changed, Last(pstack).pos) = {}
    /\ pstack' = Pop(pstack)
    /\ UNCHANGED <<sessionVars, clock, parser, parsed, parentsToUpdate, pc, pi, tasks, rootTasks, resolved,
                   resolving, stack, completions, projects, conflicts, globalEndDate, previous,
                   dragProjects, updatedTask, dragArgs>>

\* lines 646-655: the outermost call returns; parents and project bounds
Rebounded(project) ==
    LET flat == adjustParentDates(project.flatTasks)
    IN  [project EXCEPT
            !.flatTasks = flat,
            !.startDate = minDate([k \in 1..Len(flat) |-> flat[k].startDate]),
            !.endDate = maxDate([k \in 1..Len(flat) |-> flat[k].endDate])]

DragEnd ==
    /\ pc = "drag"
    /\ Len(pstack) = 1
    /\ Dependents(DragFlat, Last(pstack).changed, Last(pstack).pos) = {}
    /\ \E written \in {Rebounded(dragProjects[updatedTask[1]])} :
        /\ dragProjects' = [dragProjects EXCEPT ![updatedTask[1]] = written]
        /\ projects' = InputAfter(projects, updatedTask[1], written)
    /\ pstack' = <<>>
    /\ pc' = "dragged"
    /\ UNCHANGED <<sessionVars, clock, parser, parsed, parentsToUpdate, pi, tasks, rootTasks, resolved, resolving, stack,
                   completions, conflicts, globalEndDate, previous,
                   updatedTask, dragArgs>>

(***************************************************************************)
(* TimelineView.handleDragUpdate after the call: the returned forest is    *)
(* rendered as a temporary state and dropped; this.state.projects stays.   *)
(***************************************************************************)
DragRendered ==
    /\ pc = "dragged"
    /\ pc' = "done"
    /\ dragProjects' = <<>>
    /\ updatedTask' = <<>>
    /\ dragArgs' = <<>>
    /\ UNCHANGED <<sessionVars, clock, parser, parsed, parentsToUpdate, pi, tasks, rootTasks, resolved, resolving, stack,
                   completions, projects, conflicts, globalEndDate, previous,
                   pstack>>

(***************************************************************************)
(* TimelineCalculator.getParentTasksToUpdate.  WalkUp is the while loop:   *)
(* current is the position of the task the loop stands on, 0 for null.  A  *)
(* loop that has pushed more tasks than the forest holds is on a ring of   *)
(* parent links and never leaves it: returns is FALSE then.                *)
(***************************************************************************)
RECURSIVE WalkUp(_, _, _)
WalkUp(flat, current, pushed) ==
    IF current = 0 THEN [returns |-> TRUE, parents |-> pushed]
    ELSE IF Len(pushed) > Len(flat) THEN [returns |-> FALSE, parents |-> pushed]
    ELSE WalkUp(flat, flat[current].parent, Append(pushed, current))

\* a walk that starts at the changed task itself
getParentTasksToUpdate_WithSelf(flat, changedTask) == WalkUp(flat, changedTask, <<>>)

getParentTasksToUpdate(flat, changedTask) ==
    WalkUp(flat, flat[changedTask].parent, <<>>)

\* a caller hands over a project of a forest it holds and a task of it
ParentsCall ==
    /\ pc \in {"done", "dragged"}
    /\ \E forest \in {IF pc = "done" THEN projects ELSE dragProjects} :
        \E p \in 1..Len(forest) :
            \E changedTask \in 1..Len(forest[p].flatTasks) :
                parentsToUpdate' =
                    <<[from |-> pc,
                       project |-> p,
                       changedTask |-> changedTask,
                       result |-> getParentTasksToUpdate(forest[p].flatTasks,
                                                         changedTask)]>>
    /\ pc' = "parents"
    /\ UNCHANGED <<sessionVars, clock, parser, parsed, pi, tasks, rootTasks, resolved, resolving, stack,
                   completions, projects, conflicts, globalEndDate, previous,
                   dragProjects, updatedTask, dragArgs, pstack>>

\* getParentTasksToUpdate returns the list; what the view then writes to the
\* file is parentUpdates and updateParentDurations of the session below
ParentsReturn ==
    /\ pc = "parents"
    /\ pc' = parentsToUpdate[1].from
    /\ parentsToUpdate' = <<>>
    /\ UNCHANGED <<sessionVars, clock, parser, parsed, pi, tasks, rootTasks, resolved, resolving, stack,
                   completions, projects, conflicts, globalEndDate, previous,
                   dragProjects, updatedTask, dragArgs, pstack>>

(***************************************************************************)
(* TimelineView.processContent on an unchanged outline: Parser.parse gives *)
(* the same projects and tasks, and the global start date of the @start:   *)
(* line; without such a line parseGlobalStartDate returns new Date() of    *)
(* this call.  The ParseResult then goes through calculate.  previous      *)
(* keeps the ParseResult's global start date and the result of the call    *)
(* before.                                                                 *)
(***************************************************************************)
Reload ==
    /\ pc = "done"
    /\ Len(previous) < MaxReloads
    /\ previous' = Append(previous, [globalStartDate |-> parsed.globalStartDate,
                                     projects |-> projects, conflicts |-> conflicts,
                                     globalEndDate |-> globalEndDate])
    /\ \E g \in (IF parsed.globalStartDate % TicksPerDay = 0
                 THEN {parsed.globalStartDate} ELSE Readings(clock)) :
        /\ parsed' = [parsed EXCEPT !.globalStartDate = g]
        /\ clock' = IF parsed.globalStartDate % TicksPerDay = 0
                    THEN clock ELSE AfterReading(clock, g)
        /\ globalEndDate' = cloneDate(g)
    /\ pc' = IF Len(parsed.projects) = 0 THEN "done" ELSE "build"
    /\ pi' = 1
    /\ projects' = <<>>
    /\ conflicts' = <<>>
    /\ dragProjects' = <<>>
    /\ updatedTask' = <<>>
    /\ dragArgs' = <<>>
    /\ UNCHANGED <<sessionVars, parser, parentsToUpdate, tasks, rootTasks, resolved, resolving, stack,
                   completions, pstack>>

Next ==
    \/ Build
    \/ ResolveLoop
    \/ ResolveCall
    \/ ResolveDep
    \/ ResolveFinish
    \/ CalculateProjectEnd
    \/ DragStart
    \/ PropagateShift
    \/ PropagateReturn
    \/ DragEnd
    \/ DragRendered
    \/ ParentsCall
    \/ ParentsReturn

Spec == Init /\ [][Next]_vars

(***************************************************************************)
(* A reload: SpecReload runs processContent a second time on the same      *)
(* outline, the wall clock never going back: its first reading is the      *)
(* parser's, when the outline has no @start: line.                         *)
(***************************************************************************)
ReloadInputs ==
    UNION {{[globalStartDate |-> g, projects |-> <<p>>] :
               p \in ParsedProjects(MaxTasks - 1, Allowance(g, MaxFeatures - 1))} :
           g \in GlobalStarts}

InitReload ==
    /\ InitOn(ReloadInputs, {<<"after", n>> : n \in NowSet})
    /\ clock[2] = IF parsed.globalStartDate % TicksPerDay = 0
                  THEN Day(0) + 1 ELSE parsed.globalStartDate

NextReload == Next \/ Reload

SpecReload == InitReload /\ [][NextReload]_vars

(***************************************************************************)
(* The same outline without its out-of-range dependency indices:           *)
(* SpecStripped runs calculate on a ParseResult and then on the ParseResult *)
(* in which every index below 1 or above the number of tasks of its own    *)
(* project is removed, new Date() fixed at one instant for both runs.      *)
(***************************************************************************)
StrippedTask(t, n) ==
    [t EXCEPT !.dependencies = SelectSeq(@, LAMBDA d : d >= 1 /\ d <= n)]

StrippedProject(project) ==
    [project EXCEPT !.tasks =
        [k \in 1..Len(@) |-> StrippedTask(@[k], Len(project.tasks))]]

Stripped(parseResult) ==
    [parseResult EXCEPT !.projects = [p \in 1..Len(@) |-> StrippedProject(@[p])]]

StrippedInputs ==
    ReloadInputs
    \cup {[globalStartDate |-> StatedStart, projects |-> <<p, q>>] :
            p \in ParsedProjects(1, MaxPairFeatures),
            q \in ParsedProjects(1, MaxPairFeatures)}

InitStripped ==
    /\ InitOn(StrippedInputs, {<<now>> : now \in NowSet})
    /\ parsed.globalStartDate % TicksPerDay = 0 \/ clock[1] >= parsed.globalStartDate

CalculateStripped ==
    /\ pc = "done"
    /\ previous = <<>>
    /\ previous' = <<[projects |-> projects, conflicts |-> conflicts,
                      globalEndDate |-> globalEndDate]>>
    /\ parsed' = Stripped(parsed)
    /\ pc' = IF Len(parsed.projects) = 0 THEN "done" ELSE "build"
    /\ pi' = 1
    /\ projects' = <<>>
    /\ conflicts' = <<>>
    /\ globalEndDate' = cloneDate(parsed.globalStartDate)
    /\ dragProjects' = <<>>
    /\ updatedTask' = <<>>
    /\ dragArgs' = <<>>
    /\ UNCHANGED <<sessionVars, clock, parser, parentsToUpdate, tasks, rootTasks, resolved, resolving, stack,
                   completions, pstack>>

NextStripped == Next \/ CalculateStripped

SpecStripped == InitStripped /\ [][NextStripped]_vars

(***************************************************************************)
(* The same outline without the references of tasks to themselves:         *)
(* SpecUnlooped runs calculate on a ParseResult and then on the            *)
(* ParseResult in which no dependency list of a task holds the task's own  *)
(* index, new Date() fixed at one instant for both runs.  Resolving task k *)
(* reaches through such an index the task in progress, k itself.           *)
(***************************************************************************)
UnloopedProject(project) ==
    [project EXCEPT !.tasks =
        [k \in 1..Len(@) |->
            [@[k] EXCEPT !.dependencies = SelectSeq(@, LAMBDA d : d # k)]]]

Unlooped(parseResult) ==
    [parseResult EXCEPT !.projects = [p \in 1..Len(@) |-> UnloopedProject(@[p])]]

CalculateUnlooped ==
    /\ pc = "done"
    /\ previous = <<>>
    /\ previous' = <<[projects |-> projects, conflicts |-> conflicts,
                      globalEndDate |-> globalEndDate]>>
    /\ parsed' = Unlooped(parsed)
    /\ pc' = IF Len(parsed.projects) = 0 THEN "done" ELSE "build"
    /\ pi' = 1
    /\ projects' = <<>>
    /\ conflicts' = <<>>
    /\ globalEndDate' = cloneDate(parsed.globalStartDate)
    /\ dragProjects' = <<>>
    /\ updatedTask' = <<>>
    /\ dragArgs' = <<>>
    /\ UNCHANGED <<sessionVars, clock, parser, parentsToUpdate, tasks, rootTasks, resolved,
                   resolving, stack, completions, pstack>>

NextUnlooped == Next \/ CalculateUnlooped

SpecUnlooped == InitStripped /\ [][NextUnlooped]_vars

(***************************************************************************)
(* core/Parser.ts: task lines.  A line is what TASK_REGEX and              *)
(* MODIFIER_REGEX see in it: the number of markers, the title, the         *)
(* duration's integer, and the modifier tokens in their order, each a key  *)
(* and the value after its colon, <<>> where the value group matches       *)
(* nothing.  A value is                                                    *)
(*   "digits"  the decimal numeral of n as String(n) writes it, n >= 0,    *)
(*             without a sign and without a leading zero,                  *)
(*   "date"    the ISO string of the instant n, of a year from 0000 to     *)
(*             9999: YYYY-MM-DD when n is a midnight, with a time and Z    *)
(*             otherwise,                                                  *)
(*   "chars"   the characters chars, between double quotes when quoted,    *)
(*   "word"    any other text chars spells with the letters x, n and c,    *)
(*             digits and '-': 0001, 2025-1 and -5 are words.              *)
(* Titles are words without a parenthesised integer, which is what match   *)
(* group 2 can hold; a run of digits is of nine digits at most.            *)
(***************************************************************************)
Value(kind, n, chars, quoted) ==
    <<[kind |-> kind, n |-> n, chars |-> chars, quoted |-> quoted]>>

Token(key, value) == [key |-> key, value |-> value]

Strings(alphabet, n) == UNION {[1..k -> alphabet] : k \in 1..n}

\* values [^\s@]+ can hold, and values "([^"]+)" can hold
UnquotedNotes == Strings({"n"}, MaxChars)

QuotedNotes == Strings({"n", " ", "@"}, MaxChars)

ColorValues == Strings({"#", "c"}, MaxChars)

StartValues == {Day(0), Day(0) + 1, Day(2)}

\* x, 1x, x-1 and 0001
Words == {<<"x">>, <<"1", "x">>, <<"x", "-", "1">>, <<"0", "0", "0", "1">>}

\* 1 and 275761: the years 2001 and 275761 to new Date
StartNumerals == {1, 275761}

ModifierTokens ==
    {Token("after", Value("digits", n, <<>>, FALSE)) : n \in 0..2}
    \cup {Token("after", Value("word", 0, w, FALSE)) : w \in Words}
    \cup {Token("after", Value("date", Day(0), <<>>, FALSE))}
    \cup {Token("start", Value("date", n, <<>>, FALSE)) : n \in StartValues}
    \cup {Token("start", Value("word", 0, w, FALSE)) : w \in Words}
    \cup {Token("start", Value("digits", n, <<>>, FALSE)) : n \in StartNumerals}
    \cup {Token("color", Value("chars", 0, c, FALSE)) : c \in ColorValues}
    \cup {Token("note", Value("chars", 0, c, FALSE)) : c \in UnquotedNotes}
    \cup {Token("note", Value("chars", 0, c, TRUE)) : c \in QuotedNotes}
    \cup {Token(key, <<>>) : key \in {"after", "start", "color", "note", "milestone",
                                      "done", "progress", "cancelled", "other"}}

TaskLines ==
    [level : {1, MaxLevel}, title : {"T"}, duration : {0, MaxDuration},
     modifiers : UNION {[1..k -> ModifierTokens] : k \in 0..MaxModifiers}]

\* the decimal digits, and the numeral a run of them spells
DigitOf(c) ==
    CASE c = "0" -> 0 [] c = "1" -> 1 [] c = "2" -> 2 [] c = "3" -> 3
      [] c = "4" -> 4 [] c = "5" -> 5 [] c = "6" -> 6 [] c = "7" -> 7
      [] c = "8" -> 8 [] c = "9" -> 9

Digits == {"0", "1", "2", "3", "4", "5", "6", "7", "8", "9"}

\* the letters of the words and of the color and note values
Letters == {"x", "n", "c"}

\* where the run of characters of one class that starts behind i ends
RECURSIVE RunEnd(_, _, _)
RunEnd(chars, i, class) ==
    IF i < Len(chars) /\ chars[i + 1] \in class THEN RunEnd(chars, i + 1, class) ELSE i

RECURSIVE Numeral(_)
Numeral(digits) ==
    IF digits = <<>> THEN 0 ELSE 10 * Numeral(Pop(digits)) + DigitOf(Last(digits))

\* the civil day counted from 2025-01-01, the year yy beginning in March
\* and doy the day of that year; a day beyond the end of its month falls
\* into the next, as MakeDay has it
DaysOfEra(era, yoe, doy) ==
    era * 146097 + yoe * 365 + yoe \div 4 - yoe \div 100 + doy - 719468 - 20089

DaysFromMarch(yy, doy) == DaysOfEra(yy \div 400, yy % 400, doy)

DaysFromCivil(y, m, d) ==
    IF m <= 2 THEN DaysFromMarch(y - 1, (153 * (m + 9) + 2) \div 5 + d - 1)
    ELSE DaysFromMarch(y, (153 * (m - 3) + 2) \div 5 + d - 1)

\* the year of a civil day counted from 2025-01-01
YearFrom(era, yoe, doy) ==
    yoe + era * 400 + (IF (5 * doy + 2) \div 153 < 10 THEN 0 ELSE 1)

YearOfEra(era, doe, yoe) ==
    YearFrom(era, yoe, doe - (365 * yoe + yoe \div 4 - yoe \div 100))

YearInEra(era, doe) ==
    YearOfEra(era, doe,
              (doe - doe \div 1460 + doe \div 36524 - doe \div 146096) \div 365)

YearOfDay(day) ==
    YearInEra((day + 20089 + 719468) \div 146097, (day + 20089 + 719468) % 146097)

\* the characters a value holds where it is neither a numeral nor a date
Spelling(v) == IF v.kind \in {"word", "chars"} THEN v.chars ELSE <<>>

\* the digits that lead chars from position from on, as a number
LeadingInt(chars, from) ==
    IF from <= Len(chars) /\ chars[from] \in Digits
    THEN <<Numeral(SubSeq(chars, from, RunEnd(chars, from, Digits)))>>
    ELSE <<>>

Negated(n) == IF n = <<>> THEN <<>> ELSE <<-n[1]>>

SignedInt(chars, from) ==
    IF from <= Len(chars) /\ chars[from] = "-"
    THEN Negated(LeadingInt(chars, from + 1))
    ELSE LeadingInt(chars, from)

\* parseInt(value, 10), <<>> for NaN: white space is skipped, then a sign
\* and the leading digits are read.  The numeral is its number, an ISO date
\* gives its year.
parseInt(v) ==
    CASE v.kind = "digits" -> <<v.n>>
      [] v.kind = "date" -> <<YearOfDay(v.n \div TicksPerDay)>>
      [] OTHER -> SignedInt(Spelling(v), RunEnd(Spelling(v), 0, {" "}) + 1)

\* MakeDay and TimeClip: the civil day, a day beyond the end of its month
\* falling into the next; <<>> where the month or the day is none, and for
\* an instant further than 100,000,000 days from 1970-01-01, which lies in
\* a year from -271821 to 275760
MakeDate(year, month, day) ==
    IF /\ month \in 1..12
       /\ day \in 1..31
       /\ year \in -271821..275760
       /\ DaysFromCivil(year, month, day) + 20089 \in -100000000..100000000
    THEN <<Day(DaysFromCivil(year, month, day))>>
    ELSE <<>>

\* DayComposer::Write of the engine's date parser on the numbers it has
\* collected: missing ones are 1.  Of a text that is no ISO date, a first
\* number that is no day of a month is the year, else the numbers are
\* month, day, year, and years from 0 to 49 are of this century, from 50 to
\* 99 of the last.  <<>> for an invalid date.  The host's time zone is UTC.
FullYear(year) ==
    IF year \in 0..49 THEN year + 2000
    ELSE IF year \in 50..99 THEN year + 1900 ELSE year

Padded(comp) == [k \in 1..3 |-> IF k <= Len(comp) THEN comp[k] ELSE 1]

YearFirst(c) == IF c[1] \in 1..31 THEN <<c[3], c[1], c[2]>> ELSE c

DayOf(ymd) == MakeDate(FullYear(ymd[1]), ymd[2], ymd[3])

DayWrite(comp) == IF comp = <<>> THEN <<>> ELSE DayOf(YearFirst(Padded(comp)))

\* the same of an ISO date: year, month, day, the year as it stands
IsoOf(ymd) == MakeDate(ymd[1], ymd[2], ymd[3])

IsoWrite(comp) == IsoOf(Padded(comp))

\* the legacy date parser, behind what the ISO parser has taken: a number is
\* added to the day (at most three) and a '-' behind it is skipped; a word
\* that is no keyword is illegal after a number and right before one; a
\* sign is illegal after a number and passed over before the first
BehindNumber(chars, j) ==
    IF j < Len(chars) /\ chars[j + 1] = "-" THEN j + 2 ELSE j + 1

RECURSIVE LegacyDate(_, _, _)
RECURSIVE LegacyNumber(_, _, _, _)
RECURSIVE LegacyWord(_, _, _)
LegacyDate(chars, i, comp) ==
    IF i > Len(chars) THEN DayWrite(comp)
    ELSE IF chars[i] \in Digits
    THEN LegacyNumber(chars, i, RunEnd(chars, i, Digits), comp)
    ELSE IF chars[i] \in Letters
    THEN LegacyWord(chars, RunEnd(chars, i, Letters), comp)
    ELSE IF chars[i] = "-" /\ comp # <<>> THEN <<>>
    ELSE LegacyDate(chars, i + 1, comp)

LegacyNumber(chars, i, j, comp) ==
    IF Len(comp) = 3 THEN <<>>
    ELSE LegacyDate(chars, BehindNumber(chars, j),
                    Append(comp, Numeral(SubSeq(chars, i, j))))

LegacyWord(chars, j, comp) ==
    IF comp # <<>> \/ (j < Len(chars) /\ chars[j + 1] \in Digits) THEN <<>>
    ELSE LegacyDate(chars, j + 1, comp)

\* the ISO parser, which reads first: a year of four digits, or of six
\* behind a sign, then '-' and a month of two digits, then '-' and a day of
\* two digits, then the end of the text.  Where the text goes on otherwise,
\* the legacy parser takes over with the numbers read so far.
\* Fixed: the number behind position i is of n digits
Fixed(chars, i, n) == i < Len(chars) /\ RunEnd(chars, i, Digits) = i + n

NumberBehind(chars, i, n) == Numeral(SubSeq(chars, i + 1, i + n))

IsoEnd(chars, i, comp) ==
    IF i = Len(chars) THEN IsoWrite(comp) ELSE LegacyDate(chars, i + 1, comp)

IsoDay(chars, i, comp) ==
    IF ~(i < Len(chars) /\ chars[i + 1] = "-") THEN IsoEnd(chars, i, comp)
    ELSE IF Fixed(chars, i + 1, 2) /\ NumberBehind(chars, i + 1, 2) \in 1..31
    THEN IsoEnd(chars, i + 3, Append(comp, NumberBehind(chars, i + 1, 2)))
    ELSE LegacyDate(chars, i + 2, comp)

IsoMonth(chars, i, comp) ==
    IF ~(i < Len(chars) /\ chars[i + 1] = "-") THEN IsoEnd(chars, i, comp)
    ELSE IF Fixed(chars, i + 1, 2) /\ NumberBehind(chars, i + 1, 2) \in 1..12
    THEN IsoDay(chars, i + 3, Append(comp, NumberBehind(chars, i + 1, 2)))
    ELSE LegacyDate(chars, i + 2, comp)

\* a year -000000 is no year, and the legacy parser goes on behind it
SignedYear(chars) ==
    IF NumberBehind(chars, 1, 6) = 0 THEN LegacyDate(chars, 8, <<>>)
    ELSE IsoMonth(chars, 7, <<-NumberBehind(chars, 1, 6)>>)

IsoDate(chars) ==
    IF Fixed(chars, 0, 4) THEN IsoMonth(chars, 4, <<NumberBehind(chars, 0, 4)>>)
    ELSE IF chars # <<>> /\ chars[1] = "-" /\ Fixed(chars, 1, 6) THEN SignedYear(chars)
    ELSE LegacyDate(chars, 1, <<>>)

\* new Date(value), <<>> for an invalid date: a numeral of four digits is
\* an ISO year, another numeral the one number the legacy parser reads
NewDate(v) ==
    CASE v.kind = "date" -> <<v.n>>
      [] v.kind = "digits" -> IF v.n \in 1000..9999 THEN IsoWrite(<<v.n>>)
                              ELSE DayWrite(<<v.n>>)
      [] OTHER -> IsoDate(Spelling(v))

\* toISOString().split('T')[0]: the UTC day of the instant, as a value
DateString(date) == Value("date", Day(date \div TicksPerDay), <<>>, FALSE)

\* the locals of parseModifiers before its loop
NoModifiers ==
    [dependencies |-> <<>>, isMilestone |-> FALSE, isDone |-> FALSE,
     status |-> "pending", color |-> <<>>, explicitStartDate |-> <<>>,
     linkedNote |-> <<>>]

\* lines 135-138: depIndex is pushed unless it is NaN
Dependency(m, dep) ==
    IF dep # <<>> THEN [m EXCEPT !.dependencies = Append(@, dep[1])] ELSE m

\* lines 161-164: the date is kept unless its time is NaN
ExplicitStart(m, date) ==
    IF date # <<>> THEN [m EXCEPT !.explicitStartDate = date] ELSE m

\* one round of the while loop, lines 130-172
Modifier(m, token) ==
    LET value == token.value
    IN  CASE token.key = "after" ->
                IF value # <<>> THEN Dependency(m, parseInt(value[1])) ELSE m
          [] token.key = "milestone" -> [m EXCEPT !.isMilestone = TRUE]
          [] token.key = "done" -> [m EXCEPT !.isDone = TRUE, !.status = "done"]
          [] token.key = "progress" -> [m EXCEPT !.status = "in_progress"]
          [] token.key = "cancelled" -> [m EXCEPT !.status = "cancelled"]
          [] token.key = "color" ->
                IF value # <<>>
                THEN [m EXCEPT !.color = IF value[1].chars[1] = "#"
                                         THEN <<value[1].chars>>
                                         ELSE <<<<"#">> \o value[1].chars>>]
                ELSE m
          [] token.key = "start" ->
                IF value # <<>> THEN ExplicitStart(m, NewDate(value[1])) ELSE m
          [] token.key = "note" ->
                IF value # <<>> THEN [m EXCEPT !.linkedNote = <<value[1].chars>>]
                ELSE m
          [] OTHER -> m

RECURSIVE ModifiersFrom(_, _, _)
ModifiersFrom(m, tokens, k) ==
    IF k > Len(tokens) THEN m
    ELSE ModifiersFrom(Modifier(m, tokens[k]), tokens, k + 1)

parseModifiers(tokens) == ModifiersFrom(NoModifiers, tokens, 1)

parseTaskLine(line) ==
    LET modifiers == parseModifiers(line.modifiers)
    IN  [level |-> line.level,
         title |-> line.title,
         duration |-> line.duration,
         dependencies |-> modifiers.dependencies,
         isMilestone |-> modifiers.isMilestone,
         isDone |-> modifiers.isDone,
         status |-> modifiers.status,
         color |-> modifiers.color,
         explicitStartDate |-> modifiers.explicitStartDate,
         linkedNote |-> modifiers.linkedNote]

\* String.replace('#', ''): the first '#' goes
ReplaceHash(chars) ==
    IF \E k \in 1..Len(chars) : chars[k] = "#"
    THEN LET k == SetMin({j \in 1..Len(chars) : chars[j] = "#"})
         IN  SubSeq(chars, 1, k - 1) \o SubSeq(chars, k + 1, Len(chars))
    ELSE chars

\* what MODIFIER_REGEX finds in '@' + key + ':' + chars, chars written without
\* quotes: the value ends before the first '@', the value group matches
\* nothing if that leaves no character, and every later '@' with a letter
\* behind it starts a token
Unquoted(key, chars) ==
    LET ats == {k \in 1..Len(chars) : chars[k] = "@"}
        end == IF ats = {} THEN Len(chars) ELSE SetMin(ats) - 1
        words == {k \in ats : k < Len(chars) /\ chars[k + 1] = "n"}
    IN  <<Token(key, IF end = 0 THEN <<>>
                     ELSE Value("chars", 0, SubSeq(chars, 1, end), FALSE))>>
        \o [j \in 1..Cardinality(words) |-> Token("other", <<>>)]

\* the line serializeTask writes, as the regular expressions read it
serializeTask(task) ==
    [level |-> task.level,
     title |-> task.title,
     duration |-> task.duration,
     modifiers |->
        [k \in 1..Len(task.dependencies) |->
            Token("after", Value("digits", task.dependencies[k], <<>>, FALSE))]
        \o (IF task.explicitStartDate # <<>>
            THEN <<Token("start", DateString(task.explicitStartDate[1]))>>
            ELSE <<>>)
        \o (IF task.isMilestone THEN <<Token("milestone", <<>>)>> ELSE <<>>)
        \o (IF task.status = "done" \/ task.isDone THEN <<Token("done", <<>>)>>
            ELSE IF task.status = "in_progress" THEN <<Token("progress", <<>>)>>
            ELSE IF task.status = "cancelled" THEN <<Token("cancelled", <<>>)>>
            ELSE <<>>)
        \o (IF task.color # <<>> /\ task.color[1] # <<>>
            THEN Unquoted("color", ReplaceHash(task.color[1]))
            ELSE <<>>)
        \o (IF task.linkedNote # <<>> /\ task.linkedNote[1] # <<>>
            THEN IF \E k \in 1..Len(task.linkedNote[1]) : task.linkedNote[1][k] = " "
                 THEN <<Token("note", Value("chars", 0, task.linkedNote[1], TRUE))>>
                 ELSE Unquoted("note", task.linkedNote[1])
            ELSE <<>>)]

\* the updates updateTaskInContent is called with
Updates ==
    [duration : {<<>>, <<MaxDuration + 1>>},
     dependencies : {<<>>, <<<<2>>>>},
     status : {<<>>, <<"pending">>, <<"in_progress">>, <<"done">>, <<"cancelled">>},
     explicitStartDate : {<<>>, <<Day(2)>>}]

\* { ...existingTask, ...updates }
Spread(existingTask, updates) ==
    [existingTask EXCEPT
        !.duration = IF updates.duration # <<>> THEN updates.duration[1] ELSE @,
        !.dependencies = IF updates.dependencies # <<>>
                         THEN updates.dependencies[1] ELSE @,
        !.status = IF updates.status # <<>> THEN updates.status[1] ELSE @,
        !.explicitStartDate = IF updates.explicitStartDate # <<>>
                              THEN updates.explicitStartDate ELSE @]

(***************************************************************************)
(* The round trip of a task line: parse reads it, updateTaskInContent may  *)
(* spread updates over the task, serializeTask writes the task, parse      *)
(* reads what was written.                                                 *)
(***************************************************************************)
calcVars ==
    <<parsed, clock, pc, pi, tasks, rootTasks, resolved, resolving, stack,
      completions, projects, conflicts, globalEndDate, previous, dragProjects,
      updatedTask, dragArgs, parentsToUpdate, pstack>>

\* a task line of the file comes to the Parser
ReadLine ==
    /\ parser = <<>>
    /\ \E line \in TaskLines :
        parser' = <<[stage |-> "line", line |-> line, task |-> <<>>,
                     written |-> <<>>, reparsed |-> <<>>]>>
    /\ UNCHANGED <<calcVars, sessionVars>>

ParseLine ==
    /\ parser # <<>>
    /\ parser[1].stage = "line"
    /\ parser' = <<[parser[1] EXCEPT !.stage = "parsed",
                                     !.task = <<parseTaskLine(parser[1].line)>>]>>
    /\ UNCHANGED <<calcVars, sessionVars>>

\* updateTaskInContent, lines 236-241
PatchTask ==
    /\ parser # <<>>
    /\ parser[1].stage = "parsed"
    /\ \E updates \in Updates :
        parser' = <<[parser[1] EXCEPT !.stage = "patched",
                                      !.task = <<Spread(parser[1].task[1], updates)>>]>>
    /\ UNCHANGED <<calcVars, sessionVars>>

SerializeTask ==
    /\ parser # <<>>
    /\ parser[1].stage \in {"parsed", "patched"}
    /\ parser' = <<[parser[1] EXCEPT !.stage = "written",
                                     !.written = <<serializeTask(parser[1].task[1])>>]>>
    /\ UNCHANGED <<calcVars, sessionVars>>

ReparseLine ==
    /\ parser # <<>>
    /\ parser[1].stage = "written"
    /\ parser' = <<[parser[1] EXCEPT !.stage = "reparsed",
                                     !.reparsed = <<parseTaskLine(parser[1].written[1])>>]>>
    /\ UNCHANGED <<calcVars, sessionVars>>

InitRoundTrip == InitOn({[globalStartDate |-> StatedStart, projects |-> <<>>]}, {<<>>})

NextRoundTrip ==
    \/ ReadLine
    \/ ParseLine
    \/ PatchTask
    \/ SerializeTask
    \/ ReparseLine

SpecRoundTrip == InitRoundTrip /\ [][NextRoundTrip]_vars

(***************************************************************************)
(* Parser.updateTaskInContent.  A text is the sequence of its lines; a     *)
(* line TASK_REGEX does not match (a project header, a blank line) is a    *)
(* line without markers.                                                   *)
(***************************************************************************)
HeaderLine == [level |-> 0, title |-> "P", duration |-> 0, modifiers |-> <<>>]

PlainLine == [level |-> 1, title |-> "T", duration |-> MaxDuration, modifiers |-> <<>>]

\* line.match(TASK_REGEX)
IsTaskLine(line) == line.level >= 1

\* a header, a task line of at most one modifier, and a further task line;
\* and the texts of one header line and of no line but the empty one
PatchedLines ==
    {l \in TaskLines : l.level = 1 /\ Len(l.modifiers) <= 1}

Texts ==
    {<<HeaderLine, l, PlainLine>> : l \in PatchedLines} \cup {<<HeaderLine>>}

LineNumbers == 0..4

\* lines[lineIndex] is content[lineIndex + 1]
updateTaskInContent(content, lineNumber, updates) ==
    LET lineIndex == lineNumber - 1
    IN  IF lineIndex < 0 \/ lineIndex >= Len(content) THEN content
        ELSE IF ~IsTaskLine(content[lineIndex + 1]) THEN content
        ELSE [content EXCEPT ![lineIndex + 1] =
                 serializeTask(Spread(parseTaskLine(content[lineIndex + 1]), updates))]

\* a caller hands over a text, a line number and updates
ReadText ==
    /\ parser = <<>>
    /\ \E content \in Texts, lineNumber \in LineNumbers, updates \in Updates :
        parser' = <<[stage |-> "text", content |-> content, lineNumber |-> lineNumber,
                     updates |-> updates, returned |-> <<>>]>>
    /\ UNCHANGED <<calcVars, sessionVars>>

PatchText ==
    /\ parser # <<>>
    /\ parser[1].stage = "text"
    /\ parser' = <<[parser[1] EXCEPT
                       !.stage = "patched",
                       !.returned = updateTaskInContent(parser[1].content,
                                                        parser[1].lineNumber,
                                                        parser[1].updates)]>>
    /\ UNCHANGED <<calcVars, sessionVars>>

NextPatch == ReadText \/ PatchText

SpecPatch == InitRoundTrip /\ [][NextPatch]_vars

(***************************************************************************)
(* TASK_REGEX on a line of text.  After its markers and a blank the line   *)
(* is a sequence of items separated by single blanks: words, parenthesised *)
(* integers and modifier tokens.  .+? takes at least one character and as  *)
(* few as possible, so group 2 ends before the first parenthesised integer *)
(* that is not the first item, group 3 is that integer and group 4 is all  *)
(* the rest of the line; there is no match without such an integer.        *)
(* MODIFIER_REGEX finds in group 4 its tokens, in their order.             *)
(***************************************************************************)
Word == [kind |-> "word", n |-> 0, token |-> <<>>]

Paren(n) == [kind |-> "int", n |-> n, token |-> <<>>]

TokenItem(token) == [kind |-> "token", n |-> 0, token |-> <<token>>]

Items ==
    {Word}
    \cup {Paren(n) : n \in {MaxDuration, MaxDuration + 1}}
    \cup {TokenItem(Token("done", <<>>)),
          TokenItem(Token("after", Value("digits", 1, <<>>, FALSE)))}

TaskTexts ==
    [level : {1, MaxLevel}, items : UNION {[1..k -> Items] : k \in 1..MaxItems}]

RECURSIVE MODIFIER_REGEX(_)
MODIFIER_REGEX(items) ==
    IF items = <<>> THEN <<>>
    ELSE (IF Head(items).kind = "token" THEN <<Head(items).token[1]>> ELSE <<>>)
         \o MODIFIER_REGEX(Tail(items))

\* line.match(TASK_REGEX): <<>> for null, else the line the groups give
TASK_REGEX(text) ==
    LET items == text.items
        ends == {k \in 2..Len(items) : items[k].kind = "int"}
    IN  IF ends = {} THEN <<>>
        ELSE LET k == SetMin(ends)
             IN  <<[level |-> text.level,
                    title |-> SubSeq(items, 1, k - 1),
                    duration |-> items[k].n,
                    modifiers |-> MODIFIER_REGEX(SubSeq(items, k + 1, Len(items)))]>>

\* a line of the file comes to Parser.parse
ReadTaskText ==
    /\ parser = <<>>
    /\ \E text \in TaskTexts :
        parser' = <<[stage |-> "tasktext", text |-> text, task |-> <<>>]>>
    /\ UNCHANGED <<calcVars, sessionVars>>

\* Parser.parse, lines 63-66
MatchTaskText ==
    /\ parser # <<>>
    /\ parser[1].stage = "tasktext"
    /\ LET taskMatch == TASK_REGEX(parser[1].text)
       IN  parser' = <<[parser[1] EXCEPT
                           !.stage = "matched",
                           !.task = IF taskMatch # <<>>
                                    THEN <<parseTaskLine(taskMatch[1])>>
                                    ELSE <<>>]>>
    /\ UNCHANGED <<calcVars, sessionVars>>

NextTaskText == ReadTaskText \/ MatchTaskText

SpecTaskText == InitRoundTrip /\ [][NextTaskText]_vars

(***************************************************************************)
(* utils/UndoManager.ts.  undoManager holds the two stacks, newest action  *)
(* last, and of the last call its name, whether it took the shift of line  *)
(* 30, and what it returned: <<>> for null and for void.  onStateChange is *)
(* a callback of the view and does not touch the stacks.                   *)
(***************************************************************************)
maxStackSize == 50

UndoableAction(taskId, beforeStart, beforeDuration, afterStart, afterDuration) ==
    [type |-> "task_resize",
     taskId |-> taskId,
     before |-> [startDate |-> beforeStart, duration |-> beforeDuration],
     after |-> [startDate |-> afterStart, duration |-> afterDuration]]

\* what callers push on a manager of its own
PushedActions == {UndoableAction(<<0, 0>>, StatedStart, MaxDuration, Day(3), MaxDuration + 1)}

\* a manager whose undo stack grows without limit
pushAction_Unlimited(um, action) ==
    [um EXCEPT !.undoStack = Append(@, action), !.redoStack = <<>>,
               !.called = "pushAction", !.shifted = FALSE, !.returned = <<>>]

pushAction(um, action) ==
    LET pushed == Append(um.undoStack, action)
    IN  [um EXCEPT !.undoStack = IF Len(pushed) > maxStackSize THEN Tail(pushed)
                                 ELSE pushed,
                   !.redoStack = <<>>,
                   !.called = "pushAction",
                   !.shifted = Len(pushed) > maxStackSize,
                   !.returned = <<>>]

undo(um) ==
    IF um.undoStack = <<>>
    THEN [um EXCEPT !.called = "undo", !.returned = <<>>]
    ELSE [um EXCEPT !.undoStack = SubSeq(@, 1, Len(@) - 1),
                    !.redoStack = Append(@, Last(um.undoStack)),
                    !.called = "undo",
                    !.returned = <<Last(um.undoStack)>>]

redo(um) ==
    IF um.redoStack = <<>>
    THEN [um EXCEPT !.called = "redo", !.returned = <<>>]
    ELSE [um EXCEPT !.redoStack = SubSeq(@, 1, Len(@) - 1),
                    !.undoStack = Append(@, Last(um.redoStack)),
                    !.called = "redo",
                    !.returned = <<Last(um.redoStack)>>]

clear(um) ==
    [um EXCEPT !.undoStack = <<>>, !.redoStack = <<>>,
               !.called = "clear", !.returned = <<>>]

PushAction ==
    /\ \E action \in PushedActions : undoManager' = pushAction(undoManager, action)
    /\ UNCHANGED <<calcVars, parser, fileSync, vault, view>>

Undo ==
    /\ undoManager' = undo(undoManager)
    /\ UNCHANGED <<calcVars, parser, fileSync, vault, view>>

Redo ==
    /\ undoManager' = redo(undoManager)
    /\ UNCHANGED <<calcVars, parser, fileSync, vault, view>>

Clear ==
    /\ undoManager' = clear(undoManager)
    /\ UNCHANGED <<calcVars, parser, fileSync, vault, view>>

NextUndoManager == PushAction \/ Undo \/ Redo \/ Clear

SpecUndoManager == InitRoundTrip /\ [][NextUndoManager]_vars

(***************************************************************************)
(* The projects file.  A text is the sequence of its lines, as split('\n') *)
(* gives them; a line that TASK_REGEX does not match has level 0 and is    *)
(* told by its title: '## ' and a project name, '@start: ' and a day,      *)
(* carried as a start token, the empty line, or a line that none of the    *)
(* regular expressions matches ('# My Projects').  The icon and the note   *)
(* of a project header are left out: no line number, date or stack depends *)
(* on them.  vault is <<>> while the path names no file.                   *)
(***************************************************************************)
BlankLine == [level |-> 0, title |-> "", duration |-> 0, modifiers |-> <<>>]

TitleLine == [level |-> 0, title |-> "#", duration |-> 0, modifiers |-> <<>>]

StartLineOn(date) ==
    [level |-> 0, title |-> "@start", duration |-> 0,
     modifiers |-> <<Token("start", DateString(date))>>]

StartLine == StartLineOn(StatedStart)

Header(name) == [level |-> 0, title |-> name, duration |-> 0, modifiers |-> <<>>]

ProjectNames == {"P", "Q", "Project", "New Project", "Sample Project"}

\* line.match(PROJECT_HEADER_REGEX)
IsHeader(line) == line.level = 0 /\ line.title \in ProjectNames

\* what START_DATE_REGEX matches
IsStartLine(line) == line.level = 0 /\ line.title = "@start"

Clamp(n, low, high) == IF n < low THEN low ELSE IF n > high THEN high ELSE n

\* Array.prototype.splice(start, deleteCount, ...items), start >= 0
splice(lines, start, deleteCount, items) ==
    LET from == Clamp(start, 0, Len(lines))
        count == Clamp(deleteCount, 0, Len(lines) - from)
    IN  SubSeq(lines, 1, from) \o items \o SubSeq(lines, from + count + 1, Len(lines))

\* Array.prototype.slice(start, end), start >= 0 and end >= 0
slice(lines, start, end) == SubSeq(lines, start + 1, Clamp(end, 0, Len(lines)))

\* lines.join('\n') as the next split('\n') gives it: no line joins to the
\* empty text, which splits into one empty line
join(lines) == IF lines = <<>> THEN <<BlankLine>> ELSE lines

Remove(s, k) == SubSeq(s, 1, k - 1) \o SubSeq(s, k + 1, Len(s))

\* createProjectsFile, lines 199-211: the default content, today being now
DefaultContent(now) ==
    LET after(n) == Token("after", Value("digits", n, <<>>, FALSE))
        line(level, title, duration, modifiers) ==
            [level |-> level, title |-> title, duration |-> duration,
             modifiers |-> modifiers]
    IN  <<TitleLine,
          StartLineOn(now),
          BlankLine,
          Header("Sample Project"),
          line(1, "Planning phase", 5, <<>>),
          line(1, "Development", 10, <<after(1)>>),
          line(2, "Backend setup", 4, <<>>),
          line(2, "Frontend setup", 4, <<>>),
          line(2, "Integration", 2, <<after(1), after(2)>>),
          line(1, "Testing", 5, <<after(2)>>),
          line(1, "Deployment", 2, <<after(3), Token("milestone", <<>>)>>),
          BlankLine>>

(***************************************************************************)
(* Parser: parse on a text, and the other functions that rewrite a line.   *)
(***************************************************************************)
\* parseGlobalStartDate, lines 80-86: the day of the first '@start:' line,
\* or new Date()
StartLinesOf(content) == {k \in 1..Len(content) : IsStartLine(content[k])}

parseGlobalStartDate(content, now) ==
    IF StartLinesOf(content) # {}
    THEN content[SetMin(StartLinesOf(content))].modifiers[1].value[1].n
    ELSE now

\* parseTaskLine(match, lineNumber)
ParsedLine(line, lineNumber) ==
    LET task == parseTaskLine(line)
    IN  [level |-> task.level, title |-> task.title, duration |-> task.duration,
         dependencies |-> task.dependencies, isMilestone |-> task.isMilestone,
         isDone |-> task.isDone, status |-> task.status, color |-> task.color,
         explicitStartDate |-> task.explicitStartDate,
         linkedNote |-> task.linkedNote, lineNumber |-> lineNumber]

\* the for loop of lines 20-69 from line i on; currentProject is <<>> for null
RECURSIVE ParseFrom(_, _, _, _)
ParseFrom(content, i, done, currentProject) ==
    IF i > Len(content) THEN done \o currentProject
    ELSE IF IsHeader(content[i])
    THEN ParseFrom(content, i + 1, done \o currentProject,
                   <<[name |-> content[i].title, tasks |-> <<>>, lineNumber |-> i]>>)
    ELSE IF IsTaskLine(content[i]) /\ currentProject # <<>>
    THEN ParseFrom(content, i + 1, done,
                   <<[currentProject[1] EXCEPT
                         !.tasks = Append(@, ParsedLine(content[i], i))]>>)
    ELSE ParseFrom(content, i + 1, done, currentProject)

parse(content, now) ==
    [globalStartDate |-> parseGlobalStartDate(content, now),
     projects |-> ParseFrom(content, 1, <<>>, <<>>)]

updateTaskTitleInContent(content, lineNumber, newTitle) ==
    LET lineIndex == lineNumber - 1
    IN  IF lineIndex < 0 \/ lineIndex >= Len(content) THEN content
        ELSE IF ~IsTaskLine(content[lineIndex + 1]) THEN content
        ELSE [content EXCEPT ![lineIndex + 1] =
                 serializeTask([parseTaskLine(content[lineIndex + 1]) EXCEPT
                                   !.title = newTitle])]

\* the updates of updateTaskFull, each <<>> when undefined
NoUpdates ==
    [title |-> <<>>, duration |-> <<>>, startDate |-> <<>>, isMilestone |-> <<>>,
     status |-> <<>>]

updateTaskFullInContent(content, lineNumber, updates) ==
    LET lineIndex == lineNumber - 1
    IN  IF lineIndex < 0 \/ lineIndex >= Len(content) THEN content
        ELSE IF ~IsTaskLine(content[lineIndex + 1]) THEN content
        ELSE [content EXCEPT ![lineIndex + 1] =
                 serializeTask(
                     [parseTaskLine(content[lineIndex + 1]) EXCEPT
                         !.title = IF updates.title # <<>> THEN updates.title[1] ELSE @,
                         !.duration = IF updates.duration # <<>>
                                      THEN updates.duration[1] ELSE @,
                         !.explicitStartDate = IF updates.startDate # <<>>
                                               THEN updates.startDate ELSE @,
                         !.isMilestone = IF updates.isMilestone # <<>>
                                         THEN updates.isMilestone[1] ELSE @,
                         !.status = IF updates.status # <<>>
                                    THEN updates.status[1] ELSE @,
                         !.isDone = IF updates.status # <<>>
                                    THEN updates.status[1] = "done" ELSE @])]

updateTaskStatusInContent(content, lineNumber, newStatus) ==
    updateTaskFullInContent(content, lineNumber,
                            [NoUpdates EXCEPT !.status = <<newStatus>>])

(***************************************************************************)
(* core/FileSync.ts.  Every operation that writes the file sets            *)
(* isUpdatingFile, awaits vault.read, rewrites the content, awaits         *)
(* vault.modify, and in its finally block starts a timer of 100 ms that    *)
(* clears the flag; an operation that finds its line outside the file      *)
(* returns false after the read, through the same finally block.           *)
(* fileSync holds the flag, the number of such timers pending, whether the *)
(* debounce timer of handleFileModified is pending, whether onFileChanged  *)
(* was called, watchedFile and callbacks (FALSE for null), and the         *)
(* operations under way with the point each one has reached:               *)
(*   "read"    awaiting vault.read,                                        *)
(*   "modify"  awaiting vault.modify, content the text to write,           *)
(*   "finally" vault.modify has written the file,                          *)
(*   "create"  awaiting vault.create.                                      *)
(* caller is what the awaiting caller does when the operation returns: its *)
(* further calls, in their order.  The vault emits 'modify' in the step    *)
(* that writes the file; every listener watchFile has registered runs in   *)
(* that step, and all of them test the same watchedFile and flag.  Timers  *)
(* fire at any later step: how long the vault takes to read and write is   *)
(* not bounded by the code.  The file is written by FileSync alone.        *)
(***************************************************************************)
WatchedText == <<HeaderLine, PlainLine>>

\* readFile, awaiting vault.read
ReadFileOp ==
    [kind |-> "readFile", at |-> "read", lineNumber |-> 0, next |-> 0, target |-> 0,
     name |-> "", updates |-> NoUpdates, parents |-> <<>>, newLine |-> <<>>,
     content |-> <<>>, again |-> FALSE, caller |-> <<>>]

\* nextProjectLineNumber is 0 for null, and is tested for truth in the code
Operation(kind, lineNumber, next, target) ==
    [ReadFileOp EXCEPT !.kind = kind, !.lineNumber = lineNumber, !.next = next,
                       !.target = target]

TaskOperation(kind, lineNumber, updates) ==
    [ReadFileOp EXCEPT !.kind = kind, !.lineNumber = lineNumber, !.updates = updates]

CreateOp == [ReadFileOp EXCEPT !.kind = "createProjectsFile", !.at = "create"]

\* the steps of a caller
Await(op) == [do |-> "call", op |-> op, id |-> <<>>]

DeselectTask(taskId) == [do |-> "deselectTask", op |-> ReadFileOp, id |-> taskId]

Deselect == [do |-> "deselect", op |-> ReadFileOp, id |-> <<>>]

\* lineIndex < 0 || lineIndex >= lines.length
OutOfFile(content, lineNumber) == lineNumber - 1 < 0 \/ lineNumber - 1 >= Len(content)

\* FileSync.updateTask, lines 158-176: what it writes for what it read
updateTask(content, lineNumber, updates) ==
    updateTaskInContent(content, lineNumber,
                        [duration |-> updates.duration, dependencies |-> <<>>,
                         status |-> <<>>, explicitStartDate |-> updates.startDate])

\* FileSync.updateParentDurations, lines 107-113
RECURSIVE ParentDurations(_, _, _)
ParentDurations(content, parentTasks, k) ==
    IF k > Len(parentTasks) THEN content
    ELSE ParentDurations(
             updateTaskInContent(content, parentTasks[k].lineNumber,
                                 [duration |-> <<parentTasks[k].duration>>,
                                  dependencies |-> <<>>, status |-> <<>>,
                                  explicitStartDate |-> <<>>]),
             parentTasks, k + 1)

\* moveTask, lines 444-467
moveTask(lines, fromLineNumber, targetLineNumber) ==
    LET fromLineIndex == fromLineNumber - 1
        removed == splice(lines, fromLineIndex, 1, <<>>)
        adjusted == IF fromLineIndex < targetLineNumber - 1
                    THEN targetLineNumber - 2 ELSE targetLineNumber - 1
        targetLineIndex == Clamp(adjusted, 0, Len(removed))
    IN  splice(removed, targetLineIndex, 0, <<lines[fromLineIndex + 1]>>)

\* deleteProject, lines 531-545
deleteProject(lines, projectLineNumber, nextProjectLineNumber) ==
    LET fromStart == projectLineNumber - 1
        fromEnd == IF nextProjectLineNumber # 0 THEN nextProjectLineNumber - 2
                   ELSE Len(lines) - 1
    IN  splice(lines, fromStart, fromEnd - fromStart + 1, <<>>)

\* moveProject, lines 619-645
moveProject(lines, projectLineNumber, nextProjectLineNumber, targetLineNumber) ==
    LET fromStart == projectLineNumber - 1
        fromEnd == IF nextProjectLineNumber # 0 THEN nextProjectLineNumber - 2
                   ELSE Len(lines) - 1
        linesToMove == slice(lines, fromStart, fromEnd + 1)
        removed == splice(lines, fromStart, Len(linesToMove), <<>>)
        adjusted == IF targetLineNumber - 1 > fromStart
                    THEN targetLineNumber - 1 - Len(linesToMove)
                    ELSE targetLineNumber - 1
        adjustedTarget == Clamp(adjusted, 0, Len(removed))
    IN  splice(removed, adjustedTarget, 0, linesToMove)

\* what an operation that has read content hands to vault.modify: <<text>>,
\* or <<>> when it returns false without writing
Written(op, content) ==
    CASE op.kind \in {"updateTaskDuration", "updateTask"} ->
            <<updateTask(content, op.lineNumber, op.updates)>>
      [] op.kind = "updateParentDurations" ->
            <<ParentDurations(content, op.parents, 1)>>
      [] op.kind = "insertLine" ->
            <<splice(content, op.lineNumber, 0, op.newLine)>>
      [] op.kind = "indentTask" ->
            IF OutOfFile(content, op.lineNumber) THEN <<>>
            ELSE <<[content EXCEPT ![op.lineNumber] =
                       IF @.level >= 1 THEN [@ EXCEPT !.level = @ + 1] ELSE @]>>
      [] op.kind = "outdentTask" ->
            IF OutOfFile(content, op.lineNumber) THEN <<>>
            ELSE <<[content EXCEPT ![op.lineNumber] =
                       IF @.level >= 2 THEN [@ EXCEPT !.level = @ - 1] ELSE @]>>
      [] op.kind = "updateTaskTitle" ->
            <<updateTaskTitleInContent(content, op.lineNumber, op.updates.title[1])>>
      [] op.kind = "updateTaskFull" ->
            <<updateTaskFullInContent(content, op.lineNumber, op.updates)>>
      [] op.kind = "updateTaskStatus" ->
            <<updateTaskStatusInContent(content, op.lineNumber, op.updates.status[1])>>
      [] op.kind = "moveTask" ->
            IF OutOfFile(content, op.lineNumber) THEN <<>>
            ELSE <<moveTask(content, op.lineNumber, op.target)>>
      [] op.kind = "deleteTask" ->
            IF OutOfFile(content, op.lineNumber) THEN <<>>
            ELSE <<join(splice(content, op.lineNumber - 1, 1, <<>>))>>
      [] op.kind = "deleteProject" ->
            IF OutOfFile(content, op.lineNumber) THEN <<>>
            ELSE <<join(deleteProject(content, op.lineNumber, op.next))>>
      [] op.kind = "updateProject" ->
            IF OutOfFile(content, op.lineNumber) THEN <<>>
            ELSE <<[content EXCEPT ![op.lineNumber] =
                       Header(IF op.name = "" THEN "Project" ELSE op.name)]>>
      [] op.kind = "moveProject" ->
            IF OutOfFile(content, op.lineNumber) THEN <<>>
            ELSE <<moveProject(content, op.lineNumber, op.next, op.target)>>

\* the operations that set isUpdatingFile
SetsFlag(op) == op.kind \notin {"readFile", "createProjectsFile"}

\* the operation awaits the vault
Begin(fs, op) ==
    [fs EXCEPT !.isUpdatingFile = IF SetsFlag(op) THEN TRUE ELSE @,
               !.updates = Append(@, op)]

\* watchFile, lines 28-38
watchFile(fs, file) == IF file # <<>> THEN [fs EXCEPT !.watchedFile = TRUE] ELSE fs

\* stopWatching, lines 659-665
stopWatching(fs) == [fs EXCEPT !.watchedFile = FALSE, !.debounceTimer = FALSE]

\* destroy, lines 667-670
destroy(fs) == [stopWatching(fs) EXCEPT !.callbacks = FALSE]

\* A caller goes on, up to its next await of the vault.  A call on a path
\* that names no file returns at once: readFile null, the writers false;
\* createProjectsFile returns true at once on a path that names a file, and
\* updateParentDurations on an empty list.  loadAndRender, lines 188-209,
\* is a call of readFile: without content it calls createProjectsFile and
\* readFile again, and gives up without content a second time.
RECURSIVE Resume(_, _, _, _)
Resume(steps, fs, vw, file) ==
    IF steps = <<>> THEN [fileSync |-> fs, view |-> vw]
    ELSE LET step == Head(steps)
             rest == Tail(steps)
         IN  CASE step.do = "deselectTask" ->
                    Resume(rest, fs,
                           [vw EXCEPT !.selectedTaskId =
                                          IF @ = <<step.id>> THEN <<>> ELSE @],
                           file)
               [] step.do = "deselect" ->
                    Resume(rest, fs,
                           [vw EXCEPT !.selectedTaskId = <<>>,
                                      !.selectedProjectId = <<>>],
                           file)
               [] step.do = "call" /\ step.op.kind = "readFile" ->
                    IF file # <<>>
                    THEN [fileSync |-> Begin(fs, [step.op EXCEPT !.caller = rest]),
                          view |-> vw]
                    ELSE IF step.op.again THEN Resume(rest, fs, vw, file)
                    ELSE Resume(<<Await(CreateOp),
                                  Await([ReadFileOp EXCEPT !.again = TRUE])>> \o rest,
                                fs, vw, file)
               [] step.do = "call" /\ step.op.kind = "createProjectsFile" ->
                    IF file # <<>> THEN Resume(rest, fs, vw, file)
                    ELSE [fileSync |-> Begin(fs, [step.op EXCEPT !.caller = rest]),
                          view |-> vw]
               [] step.do = "call" /\ SetsFlag(step.op) ->
                    IF file = <<>> THEN Resume(rest, fs, vw, file)
                    ELSE IF step.op.kind = "updateParentDurations"
                            /\ step.op.parents = <<>>
                    THEN Resume(rest, fs, vw, file)
                    ELSE [fileSync |-> Begin(fs, [step.op EXCEPT !.caller = rest]),
                          view |-> vw]

\* the operation k returns to its caller
Return(fs, k, file) ==
    LET next == Resume(fs.updates[k].caller, [fs EXCEPT !.updates = Remove(@, k)],
                       view, file)
    IN  /\ fileSync' = next.fileSync
        /\ view' = next.view

\* handleAddTask's newTaskLine, TimelineView.ts line 708
NewTaskLine(now) ==
    [level |-> 1, title |-> "task", duration |-> 1,
     modifiers |-> <<Token("start", DateString(now))>>]

\* what an owner other than the view asks for: every operation, on the line
\* of the task, on the header and on a line outside the file
Operations ==
    {TaskOperation(kind, 2, [NoUpdates EXCEPT !.duration = <<MaxDuration + 1>>]) :
        kind \in {"updateTaskDuration", "updateTask"}}
    \cup {[ReadFileOp EXCEPT !.kind = "updateParentDurations", !.parents = ps] :
             ps \in {<<>>, <<[lineNumber |-> 2, duration |-> MaxDuration + 1]>>}}
    \cup {[ReadFileOp EXCEPT !.kind = "insertLine", !.lineNumber = 2,
                             !.newLine = <<NewTaskLine(StatedStart)>>]}
    \cup {Operation(kind, lineNumber, 0, 0) :
             kind \in {"indentTask", "outdentTask", "deleteTask"},
             lineNumber \in {2, 3}}
    \cup {TaskOperation("updateTaskTitle", 2, [NoUpdates EXCEPT !.title = <<"N">>]),
          TaskOperation("updateTaskFull", 2,
                        [NoUpdates EXCEPT !.title = <<"N">>,
                                          !.duration = <<MaxDuration + 1>>,
                                          !.startDate = <<Day(2)>>,
                                          !.isMilestone = <<TRUE>>,
                                          !.status = <<"done">>]),
          TaskOperation("updateTaskStatus", 2,
                        [NoUpdates EXCEPT !.status = <<"in_progress">>]),
          Operation("moveTask", 2, 0, 1),
          Operation("deleteProject", 1, 0, 0),
          [Operation("updateProject", 1, 0, 0) EXCEPT !.name = "Q"],
          Operation("moveProject", 1, 2, 3),
          CreateOp}

\* a caller asks for an operation
UpdateBegin ==
    /\ fileSync.started < MaxUpdates
    /\ \E op \in Operations :
        LET next == Resume(<<Await(op)>>, fileSync, view, vault)
        IN  fileSync' = [next.fileSync EXCEPT !.started = @ + 1]
    /\ UNCHANGED <<calcVars, parser, undoManager, vault, view>>

\* vault.read answers a writer: the content is rewritten and vault.modify
\* called, or the writer returns false through its finally block
UpdateRead ==
    /\ pc = "done"
    /\ \E k \in 1..Len(fileSync.updates) :
        LET op == fileSync.updates[k]
            written == Written(op, vault)
        IN  /\ SetsFlag(op)
            /\ op.at = "read"
            /\ IF written = <<>>
               THEN Return([fileSync EXCEPT !.resets = @ + 1], k, vault)
               ELSE /\ fileSync' = [fileSync EXCEPT !.updates[k].at = "modify",
                                                    !.updates[k].content = written[1]]
                    /\ view' = view
    /\ UNCHANGED <<calcVars, parser, undoManager, vault>>

\* the listener of lines 33-37, then handleFileModified, lines 41-51
OnModify(fs) ==
    IF fs.watchedFile /\ ~fs.isUpdatingFile THEN [fs EXCEPT !.debounceTimer = TRUE]
    ELSE fs

\* vault.modify writes the file and emits 'modify'
UpdateWrite ==
    /\ pc = "done"
    /\ \E k \in 1..Len(fileSync.updates) :
        /\ fileSync.updates[k].at = "modify"
        /\ vault' = fileSync.updates[k].content
        /\ fileSync' = [OnModify(fileSync) EXCEPT !.updates[k].at = "finally"]
    /\ UNCHANGED <<calcVars, parser, undoManager, view>>

\* the finally block: setTimeout(..., 100), and the operation returns
UpdateFinally ==
    /\ pc = "done"
    /\ \E k \in 1..Len(fileSync.updates) :
        /\ fileSync.updates[k].at = "finally"
        /\ Return([fileSync EXCEPT !.resets = @ + 1], k, vault)
    /\ UNCHANGED <<calcVars, parser, undoManager, vault>>

\* vault.create answers createProjectsFile: the file is there with the
\* default content, or was there already and the error is caught.  today is
\* read at the call; the wall clock is free here, so its reading is drawn
\* where the content is written.
CreateFile ==
    /\ pc = "done"
    /\ \E k \in 1..Len(fileSync.updates), now \in Readings(clock) :
        /\ fileSync.updates[k].at = "create"
        /\ vault' = IF vault = <<>> THEN DefaultContent(now) ELSE vault
        /\ Return(fileSync, k, vault')
    /\ UNCHANGED <<calcVars, parser, undoManager>>

\* the timer of a finally block fires: this.isUpdatingFile = false
ResetFlag ==
    /\ pc = "done"
    /\ fileSync.resets > 0
    /\ fileSync' = [fileSync EXCEPT !.resets = @ - 1, !.isUpdatingFile = FALSE]
    /\ UNCHANGED <<calcVars, parser, undoManager, vault, view>>

\* the Auto-refresh setting, SettingsTab.ts lines 9 and 21: the view is built
\* on the saved settings, with the toggle on or off
AutoRefresh == BOOLEAN

\* the callback the view sets, TimelineView.ts lines 155-162; an owner other
\* than the view does nothing the FileSync can see
onFileChanged(vw) ==
    IF vw.opened /\ vw.autoRefresh THEN <<Await(ReadFileOp)>> ELSE <<>>

\* the debounce timer fires, lines 46-50
Debounced ==
    /\ pc = "done"
    /\ fileSync.debounceTimer
    /\ LET fired == [fileSync EXCEPT !.debounceTimer = FALSE,
                                     !.onFileChanged = @ \/ fileSync.callbacks]
           next == Resume(IF fileSync.callbacks THEN onFileChanged(view) ELSE <<>>,
                          fired, view, vault)
       IN  /\ fileSync' = next.fileSync
           /\ view' = next.view
    /\ UNCHANGED <<calcVars, parser, undoManager, vault>>

\* setCallbacks, lines 24-26
SetCallbacks ==
    /\ fileSync' = [fileSync EXCEPT !.callbacks = TRUE]
    /\ UNCHANGED <<calcVars, parser, undoManager, vault, view>>

WatchFile ==
    /\ fileSync' = watchFile(fileSync, vault)
    /\ UNCHANGED <<calcVars, parser, undoManager, vault, view>>

StopWatching ==
    /\ fileSync' = stopWatching(fileSync)
    /\ UNCHANGED <<calcVars, parser, undoManager, vault, view>>

Destroy ==
    /\ fileSync' = destroy(fileSync)
    /\ UNCHANGED <<calcVars, parser, undoManager, vault, view>>

InitFileSync ==
    InitWith({[globalStartDate |-> StatedStart, projects |-> <<>>]}, {<<>>},
             {<<>>, WatchedText})

NextFileSync ==
    \/ SetCallbacks
    \/ WatchFile
    \/ StopWatching
    \/ Destroy
    \/ UpdateBegin
    \/ UpdateRead
    \/ UpdateWrite
    \/ UpdateFinally
    \/ CreateFile
    \/ ResetFlag
    \/ Debounced

SpecFileSync == InitFileSync /\ [][NextFileSync]_vars

(***************************************************************************)
(* ui/TimelineView.ts: a session of the view on one file.  The file has    *)
(* the line '@start: 2025-01-02', one project header and one or two task   *)
(* lines, the second a child of the first or what the first depends on, or *)
(* it is empty.  A handler runs from a user's event to its first await of  *)
(* the vault, and goes on when the vault answers; between the two the      *)
(* timers of FileSync fire and other handlers start and go on.             *)
(* calculate is synchronous: its steps are the actions of the calculator   *)
(* above, and nothing else runs until it has returned.  The task and the   *)
(* project a handler holds belong to the forest of the moment the handler  *)
(* started, whose objects no later step changes: their lineNumber, and the *)
(* parents and the children getParentTasksToUpdate walks, are those of     *)
(* that moment.                                                            *)
(* view holds whether onOpen and onClose have run, the autoRefresh         *)
(* setting, the saves of the settings under way, the selection, the edit   *)
(* modal that is open with what it was opened on, and how much the user    *)
(* has done.  The wall clock reads the    *)
(* same instant throughout a session.                                      *)
(***************************************************************************)
ChildLine == [level |-> 2, title |-> "T", duration |-> MaxDuration, modifiers |-> <<>>]

DependentLine ==
    [level |-> 1, title |-> "T", duration |-> MaxDuration,
     modifiers |-> <<Token("after", Value("digits", 2, <<>>, FALSE))>>]

SessionTexts ==
    {<<StartLine, HeaderLine, PlainLine>>,
     <<StartLine, HeaderLine, PlainLine, ChildLine>>,
     <<StartLine, HeaderLine, DependentLine, PlainLine>>,
     <<BlankLine>>}

\* the parsed task createTask copied lineNumber, title and status from
ParsedOf(p, t) == parsed.projects[p].tasks[t]

\* new Date() is read when no line states the start
StartReadings(content) ==
    IF StartLinesOf(content) # {} THEN {parseGlobalStartDate(content, 0)}
    ELSE Readings(clock)

\* processContent: parse, then calculate from its entry
ProcessContent(content) ==
    /\ \E now \in StartReadings(content) :
        /\ parsed' = parse(content, now)
        /\ pc' = IF Len(parse(content, now).projects) = 0 THEN "done" ELSE "build"
        /\ globalEndDate' = cloneDate(parse(content, now).globalStartDate)
        /\ clock' = IF StartLinesOf(content) # {} THEN clock
                    ELSE AfterReading(clock, now)
    /\ pi' = 1
    /\ projects' = <<>>
    /\ conflicts' = <<>>
    /\ UNCHANGED <<previous, tasks, rootTasks, resolved, resolving, stack,
                   completions, dragVars>>

LoadAndRender == <<Await(ReadFileOp)>>

\* a handler starts
Handle(steps, vw) ==
    LET next == Resume(steps, fileSync, vw, vault)
    IN  /\ fileSync' = next.fileSync
        /\ view' = next.view

\* a handler that edits the file otherwise than by a drag or a replay starts
Edit(steps, vw) == Handle(steps, [vw EXCEPT !.events = @ + 2])

\* the view takes an event of the user
Shown ==
    /\ pc = "done"
    /\ view.opened
    /\ ~view.closed
    /\ view.modal = <<>>

\* and few enough operations and timers are under way
Idle ==
    /\ Shown
    /\ Len(fileSync.updates) < MaxHandlers
    /\ fileSync.resets < MaxTimers

\* onOpen, lines 76-96: setupFileSync sets the callbacks, then loadAndRender
Open ==
    /\ pc = "done"
    /\ ~view.opened
    /\ \E autoRefresh \in AutoRefresh :
        LET next == Resume(LoadAndRender, [fileSync EXCEPT !.callbacks = TRUE],
                           [view EXCEPT !.opened = TRUE, !.autoRefresh = autoRefresh],
                           vault)
        IN  /\ fileSync' = next.fileSync
            /\ view' = next.view
    /\ UNCHANGED <<calcVars, parser, undoManager, vault>>

\* vault.read answers the readFile of loadAndRender, lines 190-204
LoadRead ==
    /\ pc = "done"
    /\ \E k \in 1..Len(fileSync.updates) :
        LET op == fileSync.updates[k]
            left == [fileSync EXCEPT !.updates = Remove(@, k)]
            retry == Resume(IF op.again THEN op.caller
                            ELSE <<Await(CreateOp),
                                   Await([ReadFileOp EXCEPT !.again = TRUE])>>
                                 \o op.caller,
                            left, view, vault)
            loaded == Resume(op.caller, watchFile(left, vault), view, vault)
        IN  /\ op.kind = "readFile"
            /\ op.at = "read"
            /\ IF vault = <<BlankLine>>
               THEN /\ fileSync' = retry.fileSync
                    /\ view' = retry.view
                    /\ UNCHANGED calcVars
               ELSE /\ ProcessContent(vault)
                    /\ fileSync' = loaded.fileSync
                    /\ view' = loaded.view
    /\ UNCHANGED <<parser, undoManager, vault>>

\* the toolbar's onRefresh, line 107
HandleRefresh ==
    /\ Idle
    /\ view.events + 2 <= MaxEvents
    /\ Handle(LoadAndRender, [view EXCEPT !.events = @ + 2])
    /\ UNCHANGED <<calcVars, parser, undoManager, vault>>

\* onChange of a toggle of the settings tab, SettingsTab.ts lines 99-102,
\* while the view is shown, a modal being open or not: the value is assigned
\* to the settings object of the plugin, which is the one the view was built
\* on (main.ts line 169, TimelineView.ts line 47), so the view reads it from
\* now on; saveSettings starts and awaits saveData (main.ts line 250).  A
\* toggle other than Auto-refresh leaves the value as it is.
OnChange ==
    /\ pc = "done"
    /\ view.opened
    /\ ~view.closed
    /\ view.events < MaxEvents
    /\ view.saving < MaxSaves
    /\ \E value \in AutoRefresh :
        view' = [view EXCEPT !.autoRefresh = value, !.saving = @ + 1,
                             !.events = @ + 1]
    /\ UNCHANGED <<calcVars, parser, undoManager, vault, fileSync>>

\* saveData answers, main.ts lines 252-258: saveSettings calls updateSettings,
\* TimelineView.ts lines 847-857, on the views of the workspace, which a view
\* that was closed is not among; the view takes the settings object it holds
\* already and starts loadAndRender
UpdateSettings ==
    /\ pc = "done"
    /\ view.saving > 0
    /\ IF view.closed
       THEN /\ view' = [view EXCEPT !.saving = @ - 1]
            /\ UNCHANGED fileSync
       ELSE /\ Len(fileSync.updates) < MaxHandlers
            /\ fileSync.resets < MaxTimers
            /\ Handle(LoadAndRender, [view EXCEPT !.saving = @ - 1])
    /\ UNCHANGED <<calcVars, parser, undoManager, vault>>

\* TimelineView.updateParentDurations, lines 569-598, for the task t of the
\* project p: the parents get the day-span of their children
parentUpdates(p, t) ==
    LET flat == projects[p].flatTasks
        parentsOfTask == getParentTasksToUpdate(flat, t).parents
    IN  [k \in 1..Len(parentsOfTask) |->
            LET ch == flat[parentsOfTask[k]].children
                earliestStart == minDate([c \in 1..Len(ch) |-> flat[ch[c]].startDate])
                latestEnd == maxDate([c \in 1..Len(ch) |-> flat[ch[c]].endDate])
            IN  [lineNumber |-> ParsedOf(p, parentsOfTask[k]).lineNumber,
                 duration |-> SpanDuration(earliestStart, latestEnd)]]

updateParentDurations(parentTasks) ==
    IF parentTasks = <<>> THEN <<>>
    ELSE <<Await([ReadFileOp EXCEPT !.kind = "updateParentDurations",
                                   !.parents = parentTasks])>>

\* where the user drops a bar: a move to a later day, a resize from the left
Drops == {<<Day(3), MaxDuration>>, <<Day(0), MaxDuration + 1>>}

HandleDragEnd ==
    /\ Idle
    /\ Len(undoManager.undoStack) < MaxCommits
    /\ view.events < MaxEvents
    /\ \E taskId \in TaskIds, drop \in Drops :
        LET p == FindProject(projects, taskId)
            newStartDate == drop[1]
            newDuration == drop[2]
        IN  IF p = 0
            THEN UNCHANGED <<undoManager, fileSync, view>>
            ELSE LET t == FindTask(projects[p], taskId)
                     task == projects[p].flatTasks[t]
                     action == UndoableAction(taskId, cloneDate(task.startDate),
                                              task.duration, cloneDate(newStartDate),
                                              newDuration)
                 IN  /\ undoManager' = pushAction(undoManager, action)
                     /\ Handle(<<Await(TaskOperation(
                                         "updateTask", ParsedOf(p, t).lineNumber,
                                         [NoUpdates EXCEPT
                                             !.duration = <<newDuration>>,
                                             !.startDate = <<newStartDate>>]))>>
                               \o updateParentDurations(parentUpdates(p, t))
                               \o LoadAndRender,
                               [view EXCEPT !.events = @ + 1])
    /\ UNCHANGED <<calcVars, parser, vault>>

\* handleUndo and handleRedo after the call of the manager: the duration of
\* the snapshot goes to the line of the task, then loadAndRender
Replay(returned, snapshot) ==
    IF returned = <<>> \/ FindProject(projects, returned[1].taskId) = 0
    THEN <<>>
    ELSE LET p == FindProject(projects, returned[1].taskId)
             t == FindTask(projects[p], returned[1].taskId)
         IN  <<Await(TaskOperation("updateTask", ParsedOf(p, t).lineNumber,
                                  [NoUpdates EXCEPT
                                      !.duration = <<returned[1][snapshot].duration>>]))>>
             \o LoadAndRender

HandleUndo ==
    /\ Idle
    /\ view.events < MaxEvents
    /\ undoManager' = undo(undoManager)
    /\ Handle(Replay(undo(undoManager).returned, "before"), [view EXCEPT !.events = @ + 1])
    /\ UNCHANGED <<calcVars, parser, vault>>

HandleRedo ==
    /\ Idle
    /\ view.events < MaxEvents
    /\ undoManager' = redo(undoManager)
    /\ Handle(Replay(redo(undoManager).returned, "after"), [view EXCEPT !.events = @ + 1])
    /\ UNCHANGED <<calcVars, parser, vault>>

\* the ids of the projects of the forest, and one that is absent
ProjectIds == {generateProjectId(i) : i \in 0..Len(projects)}

\* state.projects.findIndex(p => p.id === projectId) + 1, 0 if there is none
FindProjectIndex(projectId) ==
    IF \E p \in 1..Len(projects) : projects[p].id = projectId
    THEN SetMin({p \in 1..Len(projects) : projects[p].id = projectId})
    ELSE 0

\* handleTaskClick, lines 336-350, and handleProjectClick, lines 352-355
HandleTaskClick ==
    /\ Shown
    /\ view.events = 0
    /\ \E taskId \in TaskIds :
        /\ view' = [view EXCEPT
                       !.events = @ + 1,
                       !.selectedTaskId = <<taskId>>,
                       !.selectedProjectId =
                           IF FindProject(projects, taskId) # 0
                           THEN <<projects[FindProject(projects, taskId)].id>>
                           ELSE @]
    /\ UNCHANGED <<calcVars, parser, undoManager, fileSync, vault>>

HandleProjectClick ==
    /\ Shown
    /\ view.events = 0
    /\ \E projectId \in ProjectIds :
        /\ view' = [view EXCEPT !.events = @ + 1,
                                !.selectedProjectId = <<projectId>>,
                                !.selectedTaskId = <<>>]
    /\ UNCHANGED <<calcVars, parser, undoManager, fileSync, vault>>

StatusChoices == {"in_progress", "done"}

\* handleTaskStatusChange, lines 274-287
HandleTaskStatusChange ==
    /\ Idle
    /\ view.events + 2 <= MaxEvents
    /\ \E taskId \in TaskIds, newStatus \in StatusChoices :
        LET p == FindProject(projects, taskId)
        IN  IF p = 0 THEN UNCHANGED <<fileSync, view>>
            ELSE Edit(<<Await(TaskOperation(
                                "updateTaskStatus",
                                ParsedOf(p, FindTask(projects[p], taskId)).lineNumber,
                                [NoUpdates EXCEPT !.status = <<newStatus>>]))>>
                      \o LoadAndRender,
                      view)
    /\ UNCHANGED <<calcVars, parser, undoManager, vault>>

\* handleTaskDelete, lines 368-389, the user confirming
HandleTaskDelete ==
    /\ Idle
    /\ view.events + 2 <= MaxEvents
    /\ \E taskId \in TaskIds :
        LET p == FindProject(projects, taskId)
        IN  IF p = 0 THEN UNCHANGED <<fileSync, view>>
            ELSE Edit(<<Await(Operation(
                                "deleteTask",
                                ParsedOf(p, FindTask(projects[p], taskId)).lineNumber,
                                0, 0)),
                        DeselectTask(taskId)>>
                      \o LoadAndRender,
                      view)
    /\ UNCHANGED <<calcVars, parser, undoManager, vault>>

\* an edit modal: the line number of the task or project it was opened on,
\* the position of the project, what the task held, and the updates of the
\* task's parents
Modal(kind, lineNumber, projectIndex, task, parentTasks) ==
    <<[kind |-> kind, lineNumber |-> lineNumber, projectIndex |-> projectIndex,
       task |-> task, parents |-> parentTasks]>>

\* handleProjectNameEdit, lines 391-436, up to modal.open()
HandleProjectNameEdit ==
    /\ Idle
    /\ view.events + 2 <= MaxEvents
    /\ \E projectId \in ProjectIds :
        LET p == FindProjectIndex(projectId)
        IN  IF p = 0 THEN view' = view
            ELSE view' = [view EXCEPT
                             !.events = @ + 2,
                             !.selectedProjectId = <<projectId>>,
                             !.selectedTaskId = <<>>,
                             !.modal = Modal("project", parsed.projects[p].lineNumber,
                                             p, NoUpdates, <<>>)]
    /\ UNCHANGED <<calcVars, parser, undoManager, fileSync, vault>>

\* a modal is open and the user may close it by one of its buttons
ModalOpen(kind) ==
    /\ pc = "done"
    /\ view.modal # <<>>
    /\ view.modal[1].kind = kind
    /\ Len(fileSync.updates) < MaxHandlers
    /\ fileSync.resets < MaxTimers

\* the names the user may leave in the modal's field
NameChoices == {"", "Q"}

\* the modal's onSubmit, lines 404-415
ProjectModalSubmit ==
    /\ ModalOpen("project")
    /\ \E name \in NameChoices :
        Handle(<<Await([Operation("updateProject", view.modal[1].lineNumber, 0, 0)
                          EXCEPT !.name = name])>>
               \o LoadAndRender,
               [view EXCEPT !.modal = <<>>])
    /\ UNCHANGED <<calcVars, parser, undoManager, vault>>

\* the modal's onDelete, lines 416-432: the next project is the one of the
\* forest of now
ProjectModalDelete ==
    /\ ModalOpen("project")
    /\ LET q == view.modal[1].projectIndex + 1
           nextProjectLineNumber == IF q <= Len(projects)
                                    THEN parsed.projects[q].lineNumber ELSE 0
       IN  Handle(<<Await(Operation("deleteProject", view.modal[1].lineNumber,
                                   nextProjectLineNumber, 0)),
                    Deselect>>
                  \o LoadAndRender,
                  [view EXCEPT !.modal = <<>>])
    /\ UNCHANGED <<calcVars, parser, undoManager, vault>>

\* the user closes a modal without saving
ModalCancel ==
    /\ pc = "done"
    /\ view.modal # <<>>
    /\ view' = [view EXCEPT !.modal = <<>>]
    /\ UNCHANGED <<calcVars, parser, undoManager, fileSync, vault>>

\* handleProjectReorder, lines 438-475
HandleProjectReorder ==
    /\ Idle
    /\ view.events + 2 <= MaxEvents
    /\ \E projectId \in ProjectIds, targetIndex \in 0..Len(projects) :
        LET p == FindProjectIndex(projectId)
            nextProjectLineNumber == IF p + 1 <= Len(projects)
                                     THEN parsed.projects[p + 1].lineNumber ELSE 0
            lastProject == Len(projects)
            targetLineNumber ==
                IF targetIndex = 0 THEN parsed.projects[1].lineNumber
                ELSE IF targetIndex >= Len(projects)
                THEN IF Len(projects[lastProject].flatTasks) > 0
                     THEN Last(parsed.projects[lastProject].tasks).lineNumber + 1
                     ELSE parsed.projects[lastProject].lineNumber + 1
                ELSE parsed.projects[targetIndex + 1].lineNumber
        IN  IF p = 0 THEN UNCHANGED <<fileSync, view>>
            ELSE Edit(<<Await(Operation("moveProject", parsed.projects[p].lineNumber,
                                       nextProjectLineNumber, targetLineNumber))>>
                      \o LoadAndRender,
                      view)
    /\ UNCHANGED <<calcVars, parser, undoManager, vault>>

\* handleTaskReorder, lines 477-511; targetIndex is an index the renderer
\* offers in the target project
HandleTaskReorder ==
    /\ Idle
    /\ view.events + 2 <= MaxEvents
    /\ \E taskId \in TaskIds, targetProjectId \in ProjectIds :
        LET p == FindProject(projects, taskId)
            q == FindProjectIndex(targetProjectId)
        IN  IF p = 0 \/ q = 0 THEN UNCHANGED <<fileSync, view>>
            ELSE \E targetIndex \in 0..Len(projects[q].flatTasks) :
                LET targetLineNumber ==
                        IF targetIndex = 0 THEN parsed.projects[q].lineNumber + 1
                        ELSE IF targetIndex >= Len(projects[q].flatTasks)
                        THEN Last(parsed.projects[q].tasks).lineNumber + 1
                        ELSE ParsedOf(q, targetIndex + 1).lineNumber
                IN  Edit(<<Await(Operation(
                                   "moveTask",
                                   ParsedOf(p, FindTask(projects[p], taskId)).lineNumber,
                                   0, targetLineNumber))>>
                         \o LoadAndRender,
                         view)
    /\ UNCHANGED <<calcVars, parser, undoManager, vault>>

\* handleAddProject, lines 645-667: '\n## New Project' is two lines
HandleAddProject ==
    /\ Idle
    /\ view.events + 2 <= MaxEvents
    /\ LET lastProject == Len(projects)
           insertAfterLineNumber ==
               IF Len(projects) = 0 THEN 0
               ELSE IF Len(projects[lastProject].flatTasks) > 0
               THEN Last(parsed.projects[lastProject].tasks).lineNumber
               ELSE parsed.projects[lastProject].lineNumber
       IN  Edit(<<Await([ReadFileOp EXCEPT
                           !.kind = "insertLine",
                           !.lineNumber = insertAfterLineNumber,
                           !.newLine = <<BlankLine, Header("New Project")>>])>>
                \o LoadAndRender,
                view)
    /\ UNCHANGED <<calcVars, parser, undoManager, vault>>

\* handleAddTask, lines 669-717
HandleAddTask ==
    /\ Idle
    /\ view.events + 2 <= MaxEvents
    /\ Len(projects) > 0
    /\ \E now \in Readings(clock) :
        LET selected == IF view.selectedProjectId # <<>>
                        THEN FindProjectIndex(view.selectedProjectId[1]) ELSE 0
            targetProject == IF selected # 0 THEN selected ELSE 1
            ofProject ==
                IF selected # 0 /\ Len(projects[targetProject].flatTasks) > 0
                THEN Last(parsed.projects[targetProject].tasks).lineNumber
                ELSE parsed.projects[targetProject].lineNumber
            selectedTask == IF view.selectedTaskId # <<>>
                            THEN FindProject(projects, view.selectedTaskId[1]) ELSE 0
            insertAfterLineNumber ==
                IF view.selectedTaskId # <<>>
                THEN IF selectedTask # 0
                     THEN ParsedOf(selectedTask,
                                   FindTask(projects[selectedTask],
                                            view.selectedTaskId[1])).lineNumber
                     ELSE ofProject
                ELSE IF Len(projects[targetProject].flatTasks) > 0
                        /\ view.selectedProjectId = <<>>
                THEN Last(parsed.projects[targetProject].tasks).lineNumber
                ELSE ofProject
        IN  /\ clock' = AfterReading(clock, now)
            /\ Edit(<<Await([ReadFileOp EXCEPT
                               !.kind = "insertLine",
                               !.lineNumber = insertAfterLineNumber,
                               !.newLine = <<NewTaskLine(now)>>])>>
                    \o LoadAndRender,
                    view)
    /\ UNCHANGED <<parsed, pc, pi, tasks, rootTasks, resolved, resolving, stack,
                   completions, projects, conflicts, globalEndDate, previous,
                   dragVars, parser, undoManager, vault>>

\* handleTaskIndentById, lines 728-754
HandleTaskIndentById ==
    /\ Idle
    /\ view.events + 2 <= MaxEvents
    /\ \E taskId \in TaskIds :
        LET p == FindProject(projects, taskId)
            t == FindTask(projects[p], taskId)
            task == projects[p].flatTasks[t]
        IN  IF p = 0 THEN UNCHANGED <<fileSync, view>>
            ELSE IF (task.indexInProject = 0 /\ task.level = 1) \/ task.level >= 3
            THEN UNCHANGED <<fileSync, view>>
            ELSE Edit(<<Await(Operation("indentTask", ParsedOf(p, t).lineNumber, 0, 0))>>
                      \o LoadAndRender,
                      view)
    /\ UNCHANGED <<calcVars, parser, undoManager, vault>>

\* handleTaskOutdentById, lines 765-784
HandleTaskOutdentById ==
    /\ Idle
    /\ view.events + 2 <= MaxEvents
    /\ \E taskId \in TaskIds :
        LET p == FindProject(projects, taskId)
            t == FindTask(projects[p], taskId)
            task == projects[p].flatTasks[t]
        IN  IF p = 0 THEN UNCHANGED <<fileSync, view>>
            ELSE IF task.level <= 1 THEN UNCHANGED <<fileSync, view>>
            ELSE Edit(<<Await(Operation("outdentTask", ParsedOf(p, t).lineNumber, 0, 0))>>
                      \o LoadAndRender,
                      view)
    /\ UNCHANGED <<calcVars, parser, undoManager, vault>>

\* handleTaskLabelEdit, lines 786-824, up to modal.open(); the modal starts
\* from the task's title, duration, start date, milestone flag and status
HandleTaskLabelEdit ==
    /\ Idle
    /\ view.events + 2 <= MaxEvents
    /\ \E taskId \in TaskIds :
        LET p == FindProject(projects, taskId)
            t == FindTask(projects[p], taskId)
            task == projects[p].flatTasks[t]
        IN  IF p = 0 THEN view' = view
            ELSE view' = [view EXCEPT
                             !.events = @ + 2,
                             !.selectedTaskId = <<taskId>>,
                             !.modal =
                                 Modal("task", ParsedOf(p, t).lineNumber, p,
                                       [title |-> <<ParsedOf(p, t).title>>,
                                        duration |-> <<task.duration>>,
                                        startDate |-> <<task.startDate>>,
                                        isMilestone |-> <<task.isMilestone>>,
                                        status |-> <<ParsedOf(p, t).status>>],
                                       IF task.parent # 0 THEN parentUpdates(p, t)
                                       ELSE <<>>)]
    /\ UNCHANGED <<calcVars, parser, undoManager, fileSync, vault>>

\* the modal's onSave, lines 794-821, the user having changed the title,
\* the duration, both or neither
TaskModalSave ==
    /\ ModalOpen("task")
    /\ \E title \in {view.modal[1].task.title, <<"N">>},
          duration \in {view.modal[1].task.duration, <<MaxDuration + 1>>} :
        Handle(<<Await(TaskOperation("updateTaskFull", view.modal[1].lineNumber,
                                    [view.modal[1].task EXCEPT
                                        !.title = title, !.duration = duration]))>>
               \o updateParentDurations(view.modal[1].parents)
               \o LoadAndRender,
               [view EXCEPT !.modal = <<>>])
    /\ UNCHANGED <<calcVars, parser, undoManager, vault>>

\* onClose, lines 859-865: a modal that is open stays open, the view holds
\* no reference to it
OnClose ==
    /\ pc = "done"
    /\ view.opened
    /\ ~view.closed
    /\ view.events < MaxEvents
    /\ view' = [view EXCEPT !.closed = TRUE, !.events = @ + 1]
    /\ fileSync' = destroy(fileSync)
    /\ undoManager' = clear(undoManager)
    /\ UNCHANGED <<calcVars, parser, vault>>

InitSession ==
    InitWith({[globalStartDate |-> StatedStart, projects |-> <<>>]},
             {<<DefaultStart>>}, SessionTexts)

NextSession ==
    \/ Open
    \/ LoadRead
    \/ Build
    \/ ResolveLoop
    \/ ResolveCall
    \/ ResolveDep
    \/ ResolveFinish
    \/ CalculateProjectEnd
    \/ UpdateRead
    \/ UpdateWrite
    \/ UpdateFinally
    \/ ResetFlag
    \/ Debounced
    \/ HandleRefresh
    \/ OnChange
    \/ UpdateSettings
    \/ HandleDragEnd
    \/ HandleUndo
    \/ HandleRedo
    \/ HandleTaskClick
    \/ HandleProjectClick
    \/ HandleTaskStatusChange
    \/ HandleTaskDelete
    \/ HandleProjectNameEdit
    \/ ProjectModalSubmit
    \/ ProjectModalDelete
    \/ ModalCancel
    \/ HandleProjectReorder
    \/ HandleTaskReorder
    \/ HandleAddProject
    \/ HandleAddTask
    \/ HandleTaskIndentById
    \/ HandleTaskOutdentById
    \/ HandleTaskLabelEdit
    \/ TaskModalSave
    \/ OnClose

SpecSession == InitSession /\ [][NextSession]_vars

(***************************************************************************)
(* Vocabulary of the properties.                                           *)
(***************************************************************************)
\* the forests a caller holds in this state: calculate's, recalculateFromDrag's
Returned ==
    IF pc = "done" THEN {projects}
    ELSE IF pc = "dragged" THEN {dragProjects}
    ELSE {}

Positions(project) == 1..Len(project.flatTasks)

ValidDeps(project, t) ==
    {d \in Range(project.flatTasks[t].dependencies) : d \in Positions(project)}

\* some set of tasks in which every task depends on a task of the set
HasDependencyCycle(project) ==
    \E S \in SUBSET Positions(project) :
        /\ S # {}
        /\ \A t \in S : ValidDeps(project, t) \cap S # {}

ChildrenOf(project, t) == {c \in Positions(project) : project.flatTasks[c].parent = t}

(***************************************************************************)
(* C1. calculate terminates on every ParseResult, cyclic, forward and      *)
(* out-of-range references included.  CalcWork counts the steps calculate  *)
(* has left at most: every step it takes lowers the count, none exhausts   *)
(* the call stack, and while the count is not spent a step is possible.    *)
(* resolveTask runs to completion at most once per task and never nests    *)
(* deeper than the project has tasks, and calculate returns one project    *)
(* per parsed project with one dated task per parsed task.                 *)
(***************************************************************************)
RECURSIVE SumOver(_, _)
SumOver(f, S) ==
    IF S = {} THEN 0
    ELSE LET x == CHOOSE y \in S : TRUE IN f[x] + SumOver(f, S \ {x})

\* steps an untouched project needs at most: build, per task the call, one
\* turn per dependency and the completion, and the end of the project
ProjectWork(ptasks) ==
    2 + SumOver([k \in 1..Len(ptasks) |-> Len(ptasks[k].dependencies) + 2],
                1..Len(ptasks))

TaskWork(k) ==
    IF k \in resolved THEN 0
    ELSE IF \E a \in 1..Len(stack) : stack[a].index = k
    THEN SetMax({Len(tasks[k].dependencies) - stack[a].k + 2 :
                    a \in {b \in 1..Len(stack) : stack[b].index = k}})
    ELSE Len(tasks[k].dependencies) + 2

CalcRunning == pc \in {"build", "resolve"}

CalcWork ==
    IF ~CalcRunning THEN 0
    ELSE (IF pc = "build"
          THEN ProjectWork(parsed.projects[pi].tasks)
          ELSE 1 + SumOver([k \in 1..Len(tasks) |-> TaskWork(k)], 1..Len(tasks)))
         + SumOver([p \in 1..Len(parsed.projects) |->
                       ProjectWork(parsed.projects[p].tasks)],
                   (pi + 1)..Len(parsed.projects))

C1_ResolveOnce ==
    /\ \A k \in DOMAIN completions : completions[k] <= 1
    /\ Len(stack) <= Len(tasks)
    /\ pc = "done" =>
        /\ Len(projects) = Len(parsed.projects)
        /\ \A p \in 1..Len(projects) :
            Len(projects[p].flatTasks) = Len(parsed.projects[p].tasks)

C1_CalculateTerminates ==
    /\ [][CalcRunning => /\ CalcWork' < CalcWork
                         /\ CalcWork' >= 0
                         /\ pc' # "overflow"
                         /\ C1_ResolveOnce']_vars
    /\ [](CalcRunning => ENABLED <<Next>>_vars)

\* calculate has returned on a project with a self-reference, a forward
\* reference and an out-of-range index
C1_Witness ==
    /\ pc = "done"
    /\ \E p \in 1..Len(projects) :
        LET flat == projects[p].flatTasks
        IN  /\ \E t \in 1..Len(flat) : Includes(flat[t].dependencies, t)
            /\ \E t \in 1..Len(flat) : \E d \in Range(flat[t].dependencies) :
                  d > t /\ d <= Len(flat)
            /\ \E t \in 1..Len(flat) : \E d \in Range(flat[t].dependencies) :
                  ~InRange(d, Len(flat))

(***************************************************************************)
(* C2. recalculateFromDrag terminates: the recursion of                    *)
(* propagateDependencyChanges never exhausts the call stack.               *)
(***************************************************************************)
C2_DragTerminates == ~(pc = "overflow" /\ pstack # <<>>)

(***************************************************************************)
(* C3. Two calls of calculate on the same ParseResult return the same      *)
(* projects (start, end and duration of every task), the same conflicts    *)
(* and the same globalEndDate, whatever the clock reads at each call.      *)
(***************************************************************************)
C3_Deterministic ==
    (pc = "done" /\ previous # <<>>
     /\ Last(previous).globalStartDate = parsed.globalStartDate) =>
        Last(previous) = [globalStartDate |-> parsed.globalStartDate,
                          projects |-> projects, conflicts |-> conflicts,
                          globalEndDate |-> globalEndDate]

(***************************************************************************)
(* C4, as stated. In every returned forest every task has                  *)
(* end = start + duration days and duration >= 1.                          *)
(***************************************************************************)
C4_EndIsStartPlusDuration ==
    \A ps \in Returned : \A p \in 1..Len(ps) : \A t \in Positions(ps[p]) :
        LET task == ps[p].flatTasks[t]
        IN  /\ task.endDate = task.startDate + task.duration * TicksPerDay
            /\ task.duration >= 1

(***************************************************************************)
(* C4, amended. In every returned forest a task without children has       *)
(* end = start + duration days, and a task with children has the duration  *)
(* max(1, ceiling of the days from its start to its end).                  *)
(***************************************************************************)
C4_LeafEndParentSpan ==
    \A ps \in Returned : \A p \in 1..Len(ps) : \A t \in Positions(ps[p]) :
        LET task == ps[p].flatTasks[t]
            span == task.endDate - task.startDate
        IN  IF ChildrenOf(ps[p], t) = {}
            THEN task.endDate = task.startDate + task.duration * TicksPerDay
            ELSE /\ task.duration >= 1
                 /\ task.duration * TicksPerDay >= span
                 /\ task.duration = 1 \/ (task.duration - 1) * TicksPerDay < span

\* a returned forest with a leaf of duration 0 and a parent whose end is
\* not its start plus its duration
C4_Witness ==
    \E ps \in Returned : \E p \in 1..Len(ps) : \E t, u \in Positions(ps[p]) :
        /\ ChildrenOf(ps[p], t) = {}
        /\ ps[p].flatTasks[t].duration = 0
        /\ ChildrenOf(ps[p], u) # {}
        /\ ps[p].flatTasks[u].endDate #
              ps[p].flatTasks[u].startDate + ps[p].flatTasks[u].duration * TicksPerDay

(***************************************************************************)
(* C5. After calculate on a project without a dependency cycle, a task     *)
(* that is not manually positioned starts no earlier than each of its      *)
(* in-range dependencies ends, in the returned dates.                      *)
(***************************************************************************)
C5_StartsAfterDependencies ==
    pc = "done" =>
        \A p \in 1..Len(projects) :
            ~HasDependencyCycle(projects[p]) =>
                \A t \in Positions(projects[p]) :
                    ~projects[p].flatTasks[t].manuallyPositioned =>
                        \A d \in ValidDeps(projects[p], t) :
                            projects[p].flatTasks[t].startDate
                                >= projects[p].flatTasks[d].endDate

(***************************************************************************)
(* C6. In every returned forest a task with children starts at the         *)
(* earliest start and ends at the latest end of its direct children.       *)
(***************************************************************************)
C6_ParentSpansChildren ==
    \A ps \in Returned : \A p \in 1..Len(ps) : \A t \in Positions(ps[p]) :
        LET flat == ps[p].flatTasks
            kids == Range(flat[t].children)
        IN  kids # {} =>
                /\ \A c \in kids : flat[t].startDate <= flat[c].startDate
                                   /\ flat[t].endDate >= flat[c].endDate
                /\ \E c \in kids : flat[t].startDate = flat[c].startDate
                /\ \E c \in kids : flat[t].endDate = flat[c].endDate

\* a drag of a grandchild has returned and moved the end of its grandparent
C6_Witness ==
    /\ pc = "dragged"
    /\ updatedTask # <<>>
    /\ LET flat == dragProjects[updatedTask[1]].flatTasks
           t == updatedTask[2]
       IN  /\ flat[t].parent # 0
           /\ flat[flat[t].parent].parent # 0
           /\ flat[flat[flat[t].parent].parent].endDate #
                 projects[updatedTask[1]].flatTasks[flat[flat[t].parent].parent].endDate

(***************************************************************************)
(* C7. After calculate, of two consecutive children of one parent that are *)
(* both not manually positioned, the later starts no earlier than the      *)
(* earlier ends.                                                           *)
(***************************************************************************)
C7_SiblingsInSequence ==
    pc = "done" =>
        \A p \in 1..Len(projects) : \A t \in Positions(projects[p]) :
            LET flat == projects[p].flatTasks
                ch == flat[t].children
            IN  \A k \in 1..(Len(ch) - 1) :
                    (~flat[ch[k]].manuallyPositioned /\ ~flat[ch[k + 1]].manuallyPositioned)
                        => flat[ch[k + 1]].startDate >= flat[ch[k]].endDate

(***************************************************************************)
(* C8, as stated. After calculate a task without dependencies, parent and  *)
(* explicit start date starts at the global start date, with or without    *)
(* children.                                                               *)
(***************************************************************************)
C8_RootStartsAtGlobalStart ==
    pc = "done" =>
        \A p \in 1..Len(projects) : \A t \in Positions(projects[p]) :
            LET task == projects[p].flatTasks[t]
            IN  (task.dependencies = <<>> /\ task.parent = 0
                 /\ task.explicitStartDate = <<>>)
                    => task.startDate = parsed.globalStartDate

(***************************************************************************)
(* C8, amended. After calculate a task without dependencies, parent,       *)
(* explicit start date and children starts at the global start date.       *)
(***************************************************************************)
C8_RootLeafStartsAtGlobalStart ==
    pc = "done" =>
        \A p \in 1..Len(projects) : \A t \in Positions(projects[p]) :
            LET task == projects[p].flatTasks[t]
            IN  (task.dependencies = <<>> /\ task.parent = 0
                 /\ task.explicitStartDate = <<>> /\ ChildrenOf(projects[p], t) = {})
                    => task.startDate = parsed.globalStartDate

\* calculate has returned a root leaf without dependencies next to a root
\* with children that does not start at the global start date
C8_Witness ==
    /\ pc = "done"
    /\ \E p \in 1..Len(projects) : \E t, u \in Positions(projects[p]) :
        LET flat == projects[p].flatTasks
        IN  /\ flat[t].dependencies = <<>> /\ flat[t].parent = 0
            /\ flat[t].explicitStartDate = <<>> /\ ChildrenOf(projects[p], t) = {}
            /\ flat[u].dependencies = <<>> /\ flat[u].parent = 0
            /\ flat[u].explicitStartDate = <<>> /\ ChildrenOf(projects[p], u) # {}
            /\ flat[u].startDate # parsed.globalStartDate

(***************************************************************************)
(* C9. The conflicts calculate returns are dependency violations naming    *)
(* exactly the pairs (T, D), D an in-range dependency of T in T's project, *)
(* with T's returned start before D's returned end; the conflict scenario  *)
(* yields the one entry naming its second and its first task.              *)
(***************************************************************************)
ConflictPairs == {<<conflicts[k].taskId, conflicts[k].relatedTaskIds>> :
                    k \in 1..Len(conflicts)}

ViolatedPairs ==
    UNION {{<<projects[p].flatTasks[t].id, <<projects[p].flatTasks[d].id>>>> :
               <<t, d>> \in {<<t, d>> \in Positions(projects[p]) \X Positions(projects[p]) :
                   /\ d \in ValidDeps(projects[p], t)
                   /\ projects[p].flatTasks[t].startDate
                          < projects[p].flatTasks[d].endDate}} :
           p \in 1..Len(projects)}

C9_ConflictsAreTheViolations ==
    pc = "done" =>
        /\ ConflictPairs = ViolatedPairs
        /\ \A k \in 1..Len(conflicts) : conflicts[k].type = "dependency_violation"
        /\ parsed = ConflictScenario =>
              conflicts = <<[taskId |-> <<0, 1>>, type |-> "dependency_violation",
                             relatedTaskIds |-> <<<<0, 0>>>>]>>

\* calculate has returned on the conflict scenario
C9_Witness ==
    /\ pc = "done"
    /\ parsed = ConflictScenario
    /\ Len(conflicts) = 1
    /\ projects[1].flatTasks[1].endDate = Day(5)
    /\ projects[1].flatTasks[2].startDate = Day(2)

(***************************************************************************)
(* C10, as stated. The end-to-end scenario: Task1 = [01-01, 01-06),        *)
(* Subtask = [01-06, 01-08), Task2 ends 01-09 with duration 3,             *)
(* Task3 = [01-09, 01-10) and is a milestone.                              *)
(***************************************************************************)
ScenarioDates(task2End, task2Duration) ==
    LET flat == projects[1].flatTasks
    IN  /\ flat[1].startDate = Day(0) /\ flat[1].endDate = Day(5)
        /\ flat[3].startDate = Day(5) /\ flat[3].endDate = Day(7)
        /\ flat[2].endDate = task2End /\ flat[2].duration = task2Duration
        /\ flat[4].startDate = Day(8) /\ flat[4].endDate = Day(9)
        /\ flat[4].isMilestone

C10_ScenarioAsStated ==
    (pc = "done" /\ parsed = EndToEndScenario) => ScenarioDates(Day(8), 3)

(***************************************************************************)
(* C10, amended. The same, but Task2, reconciled with its only child,      *)
(* is [01-06, 01-08) with duration 2.                                      *)
(***************************************************************************)
C10_ScenarioReconciled ==
    (pc = "done" /\ parsed = EndToEndScenario) =>
        /\ ScenarioDates(Day(7), 2)
        /\ projects[1].flatTasks[2].startDate = Day(5)

\* calculate has returned on the end-to-end scenario
C10_Witness ==
    /\ pc = "done"
    /\ parsed = EndToEndScenario
    /\ Len(projects) = 1
    /\ projects[1].flatTasks[2].children = <<3>>

(***************************************************************************)
(* C11. With at least one project, the globalEndDate calculate returns is  *)
(* the latest end date of the returned projects.                           *)
(***************************************************************************)
C11_GlobalEndIsLatestProjectEnd ==
    (pc = "done" /\ Len(projects) >= 1) =>
        globalEndDate = SetMax({projects[p].endDate : p \in 1..Len(projects)})

(***************************************************************************)
(* C12. Every project calculate returns, and the project of the dragged    *)
(* task recalculateFromDrag returns, starts at the earliest start and ends *)
(* at the latest end of its flat task list; a project without tasks starts *)
(* and ends at the global start date.                                      *)
(***************************************************************************)
BoundsSpanTasks(project) ==
    LET flat == project.flatTasks
    IN  IF Len(flat) = 0
        THEN project.startDate = parsed.globalStartDate
             /\ project.endDate = parsed.globalStartDate
        ELSE /\ project.startDate = SetMin({flat[t].startDate : t \in 1..Len(flat)})
             /\ project.endDate = SetMax({flat[t].endDate : t \in 1..Len(flat)})

C12_ProjectBoundsSpanTasks ==
    /\ pc = "done" => \A p \in 1..Len(projects) : BoundsSpanTasks(projects[p])
    /\ (pc = "dragged" /\ updatedTask # <<>>) =>
           BoundsSpanTasks(dragProjects[updatedTask[1]])

\* a drag has returned and moved the end of the project of the dragged
\* task, next to a project without tasks
C12_Witness ==
    /\ pc = "dragged"
    /\ updatedTask # <<>>
    /\ dragProjects[updatedTask[1]].endDate # projects[updatedTask[1]].endDate
    /\ \E p \in 1..Len(dragProjects) : Len(dragProjects[p].flatTasks) = 0

(***************************************************************************)
(* C13. Out-of-range dependency indices are inert: calculate returns the   *)
(* same task dates and durations, project bounds, conflicts and            *)
(* globalEndDate for a ParseResult and for the ParseResult without its     *)
(* indices below 1 or above the number of tasks of the same project.       *)
(***************************************************************************)
DatesOf(ps) ==
    [p \in 1..Len(ps) |->
        [startDate |-> ps[p].startDate,
         endDate |-> ps[p].endDate,
         tasks |-> [t \in 1..Len(ps[p].flatTasks) |->
                       <<ps[p].flatTasks[t].startDate, ps[p].flatTasks[t].endDate,
                         ps[p].flatTasks[t].duration>>]]]

C13_OutOfRangeIndicesInert ==
    (pc = "done" /\ previous # <<>>) =>
        /\ DatesOf(projects) = DatesOf(previous[1].projects)
        /\ conflicts = previous[1].conflicts
        /\ globalEndDate = previous[1].globalEndDate

\* both runs have returned on a two-project outline whose first project
\* held the index 0 and whose second project held an index that is a
\* position of the outline but not of its own project
C13_Witness ==
    /\ pc = "done"
    /\ previous # <<>>
    /\ Len(projects) = 2
    /\ Len(projects[1].flatTasks) = 1
    /\ Len(projects[2].flatTasks) = 1
    /\ previous[1].projects[1].flatTasks[1].dependencies = <<0>>
    /\ projects[1].flatTasks[1].dependencies = <<>>
    /\ previous[1].projects[2].flatTasks[1].dependencies = <<2>>
    /\ projects[2].flatTasks[1].dependencies = <<>>


(***************************************************************************)
(* C14. In every returned project flatTasks is the source order: the task  *)
(* at position i is the i-th task of the outline (its level, dependency    *)
(* list and milestone mark), has indexInProject = i and the id made of the *)
(* project's index and i, no two tasks of the forest share an id, and the  *)
(* pre-order traversal of the task tree visits the positions in order.     *)
(* A drag returns the same tasks at the same positions as the committed    *)
(* forest.                                                                 *)
(***************************************************************************)
RECURSIVE PreOrder(_, _, _)
PreOrder(flat, idxs, k) ==
    IF k > Len(idxs) THEN <<>>
    ELSE <<idxs[k]>> \o PreOrder(flat, flat[idxs[k]].children, 1)
                     \o PreOrder(flat, idxs, k + 1)

InSourceOrder(ps) ==
    /\ Len(ps) = Len(parsed.projects)
    /\ \A p \in 1..Len(ps) :
        /\ Len(ps[p].flatTasks) = Len(parsed.projects[p].tasks)
        /\ ps[p].id = <<p - 1>>
        /\ \A t \in Positions(ps[p]) :
            /\ ps[p].flatTasks[t].indexInProject = t - 1
            /\ ps[p].flatTasks[t].id = <<p - 1, t - 1>>
            /\ ps[p].flatTasks[t].projectId = <<p - 1>>
            /\ ps[p].flatTasks[t].level = parsed.projects[p].tasks[t].level
            /\ ps[p].flatTasks[t].dependencies = parsed.projects[p].tasks[t].dependencies
            /\ ps[p].flatTasks[t].isMilestone = parsed.projects[p].tasks[t].isMilestone
        /\ PreOrder(ps[p].flatTasks, ps[p].tasks, 1) =
               [t \in 1..Len(ps[p].flatTasks) |-> t]

UniqueIds(ps) ==
    \A p, q \in 1..Len(ps) :
        \A t \in Positions(ps[p]), u \in Positions(ps[q]) :
            ps[p].flatTasks[t].id = ps[q].flatTasks[u].id => p = q /\ t = u

C14_FlatTasksInSourceOrder ==
    \A ps \in Returned : InSourceOrder(ps) /\ UniqueIds(ps)

\* a drag returned a three-level chain in which it moved some task
C14_Witness ==
    /\ pc = "dragged"
    /\ updatedTask # <<>>
    /\ LET flat == dragProjects[updatedTask[1]].flatTasks
       IN  /\ Len(flat) = 3
           /\ flat[2].parent = 1
           /\ flat[3].parent = 2
           /\ \E t \in 1..3 :
                flat[t].startDate # projects[updatedTask[1]].flatTasks[t].startDate


(***************************************************************************)
(* C15. recalculateFromDrag leaves the forest it is given as it was: from  *)
(* the call to the moment the view has rendered the result and dropped it, *)
(* no step changes any project or task of the committed forest, so the     *)
(* next pointer move starts from the same forest.                          *)
(***************************************************************************)
C15_InputForestUntouched ==
    [][(pc \in {"done", "drag", "dragged"}) => (projects' = projects)]_vars

\* a drag returned a forest in which the dragged task, a dependent of it and
\* the project's bounds differ from the committed ones
C15_Witness ==
    /\ pc = "dragged"
    /\ updatedTask # <<>>
    /\ LET p == updatedTask[1]
           t == updatedTask[2]
       IN  /\ dragProjects[p].flatTasks[t].startDate # projects[p].flatTasks[t].startDate
           /\ dragProjects[p].flatTasks[t].manuallyPositioned
           /\ ~projects[p].flatTasks[t].manuallyPositioned
           /\ dragProjects[p].endDate # projects[p].endDate
           /\ \E j \in Positions(projects[p]) :
                /\ j # t
                /\ Includes(projects[p].flatTasks[j].dependencies, t)
                /\ dragProjects[p].flatTasks[j].startDate # projects[p].flatTasks[j].startDate


(***************************************************************************)
(* C16. The updatedTask of recalculateFromDrag(projects, id, newStart,     *)
(* newDuration), id being the id of a task of the forest.                  *)
(***************************************************************************)
Updated == dragProjects[updatedTask[1]].flatTasks[updatedTask[2]]

Committed == projects[updatedTask[1]].flatTasks[updatedTask[2]]

\* the duration the call asks for
AskedDuration ==
    IF dragArgs[1].newDuration # <<>> THEN dragArgs[1].newDuration[1]
    ELSE Committed.duration

\* updatedTask is the task of the given id, pinned at newStart
PinnedAsAsked ==
    /\ Updated.id = dragArgs[1].taskId
    /\ Updated.explicitStartDate = <<dragArgs[1].newStartDate>>
    /\ Updated.manuallyPositioned

\* updatedTask lies at newStart and lasts the asked duration
PlacedAsAsked ==
    /\ Updated.startDate = dragArgs[1].newStartDate
    /\ Updated.duration = AskedDuration
    /\ Updated.endDate = addDays(Updated.startDate, Updated.duration)

\* C16 as stated: for a leaf or non-leaf task of the given id, the returned
\* updatedTask has start = explicit start = newStart, manuallyPositioned set,
\* the new duration if one is given and the previous one otherwise, and
\* end = start + duration.
C16_UpdatedTaskAsAsked ==
    (pc = "dragged" /\ updatedTask # <<>>) => PinnedAsAsked /\ PlacedAsAsked

\* C16 amended: every returned updatedTask is pinned at newStart; one without
\* children also lies at newStart with the asked duration and end = start +
\* duration; one with children spans its children, its duration being that
\* of the span, at least 1.
C16_UpdatedLeafAsAsked ==
    (pc = "dragged" /\ updatedTask # <<>>) =>
        /\ PinnedAsAsked
        /\ Len(Updated.children) = 0 => PlacedAsAsked
        /\ Len(Updated.children) > 0 =>
            LET flat == dragProjects[updatedTask[1]].flatTasks
                ch == Updated.children
            IN  /\ Updated.startDate = SetMin({flat[ch[k]].startDate : k \in 1..Len(ch)})
                /\ Updated.endDate = SetMax({flat[ch[k]].endDate : k \in 1..Len(ch)})
                /\ Updated.duration = SpanDuration(Updated.startDate, Updated.endDate)

\* a task without children, on which some task depends, was dragged to
\* another day with a new duration
C16_Witness ==
    /\ pc = "dragged"
    /\ updatedTask # <<>>
    /\ Len(Updated.children) = 0
    /\ dragArgs[1].newDuration # <<>>
    /\ Updated.duration # Committed.duration
    /\ Updated.startDate # Committed.startDate
    /\ \E j \in Positions(dragProjects[updatedTask[1]]) :
        Includes(dragProjects[updatedTask[1]].flatTasks[j].dependencies, updatedTask[2])


(***************************************************************************)
(* C17. After a drag on a project without dependency cycles, every task    *)
(* whose dependency list names the dragged task starts no earlier than the *)
(* end the dragged task has in the returned forest, and a dependent that   *)
(* started exactly at the old end of the dragged task has moved forward by *)
(* as much as that end did.                                                *)
(***************************************************************************)
DraggedForest == dragProjects[updatedTask[1]].flatTasks

CommittedForest == projects[updatedTask[1]].flatTasks

DependentsOfDragged ==
    {j \in 1..Len(DraggedForest) :
        Includes(DraggedForest[j].dependencies, updatedTask[2])}

C17_DependentsFollowDrag ==
    (/\ pc = "dragged"
     /\ updatedTask # <<>>
     /\ ~HasDependencyCycle(dragProjects[updatedTask[1]])) =>
        \A j \in DependentsOfDragged :
            /\ DraggedForest[j].startDate >= Updated.endDate
            /\ (/\ CommittedForest[j].startDate = Committed.endDate
                /\ Updated.endDate > Committed.endDate) =>
                   DraggedForest[j].startDate - CommittedForest[j].startDate =
                       Updated.endDate - Committed.endDate


(***************************************************************************)
(* C18. A drag leaves start, end and duration of every task that is        *)
(* neither the dragged task, nor a direct or transitive dependent of it,   *)
(* nor an ancestor of one of those, as they were in the committed forest,  *)
(* and returns every other project with all its dates unchanged.           *)
(***************************************************************************)
RECURSIVE DependencyClosure(_, _)
DependencyClosure(flat, S) ==
    LET more == {j \in 1..Len(flat) : Range(flat[j].dependencies) \cap S # {}}
    IN  IF more \subseteq S THEN S ELSE DependencyClosure(flat, S \cup more)

RECURSIVE AncestorsOf(_, _)
AncestorsOf(flat, k) ==
    IF flat[k].parent = 0 THEN {}
    ELSE {flat[k].parent} \cup AncestorsOf(flat, flat[k].parent)

\* the dragged task, its dependents, and the ancestors of those
Affected ==
    LET related == DependencyClosure(CommittedForest, {updatedTask[2]})
    IN  related \cup UNION {AncestorsOf(CommittedForest, k) : k \in related}

SameDates(a, b) ==
    /\ a.startDate = b.startDate
    /\ a.endDate = b.endDate
    /\ a.duration = b.duration

C18_UnrelatedTasksUnchanged ==
    (pc = "dragged" /\ updatedTask # <<>>) =>
        /\ \A k \in 1..Len(CommittedForest) :
            k \notin Affected => SameDates(DraggedForest[k], CommittedForest[k])
        /\ \A q \in 1..Len(projects) :
            q # updatedTask[1] =>
                /\ dragProjects[q].startDate = projects[q].startDate
                /\ dragProjects[q].endDate = projects[q].endDate
                /\ \A k \in Positions(projects[q]) :
                    SameDates(dragProjects[q].flatTasks[k], projects[q].flatTasks[k])

\* a drag moved the dragged task and a dependent of it and left a third task,
\* which depends on some task but on neither of them, where it was
C18_Witness ==
    /\ pc = "dragged"
    /\ updatedTask # <<>>
    /\ ~SameDates(Updated, Committed)
    /\ \E j \in Affected \ {updatedTask[2]} :
        ~SameDates(DraggedForest[j], CommittedForest[j])
    /\ \E k \in 1..Len(CommittedForest) :
        /\ k \notin Affected
        /\ CommittedForest[k].dependencies # <<>>


(***************************************************************************)
(* C19. On a project of a forest calculate or recalculateFromDrag has      *)
(* returned, getParentTasksToUpdate(flatTasks, t) ends and returns the     *)
(* ancestors of t and nothing else: first the task whose children hold t,  *)
(* then the task whose children hold that one, up to a root task of the    *)
(* project; t is not in the list, no task is in it twice, and the list is  *)
(* empty exactly when t is a root task.                                    *)
(***************************************************************************)
C19_ParentsAreTheAncestors ==
    pc = "parents" =>
        LET call == parentsToUpdate[1]
            forest == IF call.from = "done" THEN projects ELSE dragProjects
            project == forest[call.project]
            flat == project.flatTasks
            t == call.changedTask
            list == call.result.parents
            below(k) == IF k = 1 THEN t ELSE list[k - 1]
        IN  /\ call.result.returns
            /\ \A k \in 1..Len(list) : Includes(flat[list[k]].children, below(k))
            /\ \A k \in 1..Len(list) : list[k] # t
            /\ \A k, m \in 1..Len(list) : list[k] = list[m] => k = m
            /\ Includes(project.tasks, below(Len(list) + 1))
            /\ (Len(list) = 0) <=> Includes(project.tasks, t)
            /\ Range(list) = {a \in 1..Len(flat) :
                                 \E path \in UNION {[1..n -> 1..Len(flat)] :
                                                       n \in 2..Len(flat)} :
                                     /\ path[1] = a
                                     /\ path[Len(path)] = t
                                     /\ \A k \in 1..(Len(path) - 1) :
                                            Includes(flat[path[k]].children, path[k + 1])}

\* the call on a third-level task of a forest a drag returned: two ancestors
C19_Witness ==
    /\ pc = "parents"
    /\ parentsToUpdate[1].from = "dragged"
    /\ parentsToUpdate[1].result.returns
    /\ Len(parentsToUpdate[1].result.parents) = 2


(***************************************************************************)
(* C20. Round trip: the task parse reads from the line serializeTask wrote *)
(* for a task t, t read from a line or patched by updateTaskInContent, has *)
(* the level, title, duration, dependency list, milestone flag, done flag, *)
(* status, explicit start date, color and linked note of t.                *)
(***************************************************************************)
C20_RoundTrip ==
    (parser # <<>> /\ parser[1].stage = "reparsed") =>
        parser[1].reparsed[1] = parser[1].task[1]


(***************************************************************************)
(* C21. Line patch: updateTaskInContent(text, n, updates) returns a text   *)
(* of as many lines, equal to the input in every line but line n; line n   *)
(* of it parses to the task the old line parses to with the updated fields *)
(* replaced and no other; for n out of range or a line n that is no task   *)
(* line the text returned is the input.                                    *)
(***************************************************************************)
\* the old task with exactly the updated fields replaced
Replaced(old, updates) ==
    [level |-> old.level,
     title |-> old.title,
     duration |-> IF updates.duration = <<>> THEN old.duration ELSE updates.duration[1],
     dependencies |-> IF updates.dependencies = <<>> THEN old.dependencies
                      ELSE updates.dependencies[1],
     isMilestone |-> old.isMilestone,
     isDone |-> old.isDone,
     status |-> IF updates.status = <<>> THEN old.status ELSE updates.status[1],
     color |-> old.color,
     explicitStartDate |-> IF updates.explicitStartDate = <<>> THEN old.explicitStartDate
                           ELSE updates.explicitStartDate,
     linkedNote |-> old.linkedNote]

C21_LinePatch ==
    (parser # <<>> /\ parser[1].stage = "patched") =>
        LET content == parser[1].content
            n == parser[1].lineNumber
            returned == parser[1].returned
        IN  /\ Len(returned) = Len(content)
            /\ \A k \in 1..Len(content) : k # n => returned[k] = content[k]
            /\ IF n \in 1..Len(content) /\ IsTaskLine(content[n])
               THEN /\ IsTaskLine(returned[n])
                    /\ parseTaskLine(returned[n]) =
                           Replaced(parseTaskLine(content[n]), parser[1].updates)
               ELSE returned = content


(***************************************************************************)
(* C22. Cycle guard: a reference that leads the resolution of a task back  *)
(* to a task in progress adds nothing to the task's start.  For the        *)
(* references of tasks to themselves: calculate returns the same dates and *)
(* durations for an outline and for the outline without them, whatever     *)
(* the instant new Date() gave the tasks as a placeholder.                 *)
(***************************************************************************)
C22_LoopingReferenceInert ==
    (pc = "done" /\ previous # <<>>) =>
        DatesOf(projects) = DatesOf(previous[1].projects)


(***************************************************************************)
(* C23. A cyclic dependency is silent: for a project whose dependency      *)
(* lists hold a cycle, calculate emits no conflict entry for the reference *)
(* that closes the cycle.  The closing reference is the one resolveTask    *)
(* meets while the task it names is in resolving (line 472).  In the two   *)
(* cycles the claim names it is known from the outline: the reference of   *)
(* a task to itself; and, where task 1 names task 2 only and task 2 names  *)
(* task 1 only, neither with a start of its own, the reference of task 2,  *)
(* since calculateDates starts with task 1, whose loop calls resolveTask   *)
(* on task 2 while task 1 is in resolving.                                 *)
(***************************************************************************)
SelfReferring(project) == {t \in Positions(project) : t \in ValidDeps(project, t)}

NamesOnly(project, t, d) ==
    /\ project.flatTasks[t].dependencies = <<d>>
    /\ project.flatTasks[t].explicitStartDate = <<>>

MutuallyReferring(project) ==
    /\ Len(project.flatTasks) >= 2
    /\ NamesOnly(project, 1, 2)
    /\ NamesOnly(project, 2, 1)

ClosingReferences(project) ==
    {<<t, t>> : t \in SelfReferring(project)}
    \cup (IF MutuallyReferring(project) THEN {<<2, 1>>} ELSE {})

ReferencePair(project, reference) ==
    <<project.flatTasks[reference[1]].id, <<project.flatTasks[reference[2]].id>>>>

\* C23: calculate emits no conflict entry for a reference that closes a
\* dependency cycle, be it a task's reference to itself or the second
\* reference of two tasks that name each other.
C23_CycleIsSilent ==
    pc = "done" =>
        \A p \in 1..Len(projects) :
            \A reference \in ClosingReferences(projects[p]) :
                ReferencePair(projects[p], reference) \notin ConflictPairs


(***************************************************************************)
(* C24. Hierarchy: in every returned project the parent of a task is the   *)
(* nearest task before it in source order whose level is strictly smaller, *)
(* and it has none when there is no such task; the children of a task and  *)
(* the root tasks are, in source order, the tasks of which it is the       *)
(* parent and the tasks without parent; the forest a drag returns has the  *)
(* parents, children and roots of the committed one.                       *)
(***************************************************************************)
NearestSmaller(flat, t) ==
    LET before == {k \in 1..(t - 1) : flat[k].level < flat[t].level}
    IN  IF before = {} THEN 0 ELSE SetMax(before)

\* the members of S in increasing order
InOrder(S, n) == SelectSeq([k \in 1..n |-> k], LAMBDA k : k \in S)

HierarchyByLevels(project) ==
    LET flat == project.flatTasks
    IN  /\ \A t \in Positions(project) :
            /\ flat[t].parent = NearestSmaller(flat, t)
            /\ flat[t].children =
                   InOrder({c \in Positions(project) : NearestSmaller(flat, c) = t},
                           Len(flat))
        /\ project.tasks =
               InOrder({c \in Positions(project) : NearestSmaller(flat, c) = 0},
                       Len(flat))

C24_ParentIsNearestSmallerLevel ==
    /\ \A ps \in Returned : \A p \in 1..Len(ps) : HierarchyByLevels(ps[p])
    /\ pc = "dragged" =>
        \A p \in 1..Len(projects) :
            /\ dragProjects[p].tasks = projects[p].tasks
            /\ \A t \in Positions(projects[p]) :
                /\ dragProjects[p].flatTasks[t].parent = projects[p].flatTasks[t].parent
                /\ dragProjects[p].flatTasks[t].children
                       = projects[p].flatTasks[t].children

\* a drag returned a project whose levels go 1, 3, 2: the third task leaves
\* the second and is a child of the first
C24_Witness ==
    /\ pc = "dragged"
    /\ updatedTask # <<>>
    /\ Len(DraggedForest) = 3
    /\ DraggedForest[1].level = 1
    /\ DraggedForest[2].level = 3
    /\ DraggedForest[3].level = 2
    /\ DraggedForest[3].parent = 1
    /\ DraggedForest[1].children = <<2, 3>>


(***************************************************************************)
(* C25, as stated. After calculate a task is manually positioned exactly   *)
(* when it has an explicit start date, and every such task starts at that  *)
(* date and ends duration days later, whatever its dependencies, parent,   *)
(* siblings and children.                                                  *)
(***************************************************************************)
PinnedAtExplicitStart(task) ==
    /\ task.startDate = task.explicitStartDate[1]
    /\ task.endDate = addDays(task.startDate, task.duration)

C25_ExplicitStartPinsTask ==
    pc = "done" =>
        \A p \in 1..Len(projects) : \A t \in Positions(projects[p]) :
            LET task == projects[p].flatTasks[t]
            IN  /\ task.manuallyPositioned <=> task.explicitStartDate # <<>>
                /\ task.explicitStartDate # <<>> => PinnedAtExplicitStart(task)

(***************************************************************************)
(* C25, amended. After calculate a task is manually positioned exactly     *)
(* when it has an explicit start date; every such task without children    *)
(* starts at that date and ends duration days later, with the duration of  *)
(* the outline, whatever its dependencies, parent and siblings; every such *)
(* task with children has the span of its direct children instead.         *)
(***************************************************************************)
C25_ExplicitStartPinsLeaf ==
    pc = "done" =>
        \A p \in 1..Len(projects) : \A t \in Positions(projects[p]) :
            LET task == projects[p].flatTasks[t]
                flat == projects[p].flatTasks
                kids == ChildrenOf(projects[p], t)
            IN  /\ task.manuallyPositioned <=> task.explicitStartDate # <<>>
                /\ task.explicitStartDate = parsed.projects[p].tasks[t].explicitStartDate
                /\ (task.explicitStartDate # <<>> /\ kids = {}) =>
                       /\ PinnedAtExplicitStart(task)
                       /\ task.duration = parsed.projects[p].tasks[t].duration
                /\ (task.explicitStartDate # <<>> /\ kids # {}) =>
                       /\ task.startDate = SetMin({flat[c].startDate : c \in kids})
                       /\ task.endDate = SetMax({flat[c].endDate : c \in kids})

\* calculate has returned a parent and its child, both with an explicit
\* start date, the child's the earlier one: the child starts at its own
\* date, before the date its parent names, and the parent starts with it
C25_Witness ==
    /\ pc = "done"
    /\ \E p \in 1..Len(projects) : \E t, c \in Positions(projects[p]) :
        LET flat == projects[p].flatTasks
        IN  /\ flat[c].parent = t
            /\ ChildrenOf(projects[p], c) = {}
            /\ flat[t].explicitStartDate # <<>>
            /\ flat[c].explicitStartDate # <<>>
            /\ flat[c].explicitStartDate[1] < flat[t].explicitStartDate[1]
            /\ flat[c].startDate = flat[c].explicitStartDate[1]
            /\ flat[t].startDate = flat[c].startDate


(***************************************************************************)
(* C26. Modifier tokens are order-independent: a task line and the line    *)
(* with its modifier tokens in any other order that keeps the after tokens *)
(* in their relative order parse to the same dependencies, milestone flag, *)
(* done flag, status, color, explicit start date and linked note.          *)
(***************************************************************************)
\* the orders of n tokens: at place k stands the token that was at place f[k]
Orders(n) == {f \in [1..n -> 1..n] : \A i, j \in 1..n : i # j => f[i] # f[j]}

KeepsAfterOrder(tokens, f) ==
    \A i, j \in 1..Len(tokens) :
        (i < j /\ tokens[f[i]].key = "after" /\ tokens[f[j]].key = "after")
            => f[i] < f[j]

Reordered(line) ==
    {[line EXCEPT !.modifiers = [k \in 1..Len(line.modifiers) |-> line.modifiers[f[k]]]] :
        f \in {g \in Orders(Len(line.modifiers)) : KeepsAfterOrder(line.modifiers, g)}}

SameModifiers(a, b) ==
    /\ a.dependencies = b.dependencies
    /\ a.isMilestone = b.isMilestone
    /\ a.isDone = b.isDone
    /\ a.status = b.status
    /\ a.color = b.color
    /\ a.explicitStartDate = b.explicitStartDate
    /\ a.linkedNote = b.linkedNote

C26_ModifierOrderIrrelevant ==
    (parser # <<>> /\ parser[1].stage = "parsed") =>
        \A other \in Reordered(parser[1].line) :
            SameModifiers(parseTaskLine(other), parser[1].task[1])


(***************************************************************************)
(* C27. A task line with more than one parenthesised integer after its     *)
(* markers is a task whose title is the text up to the last parenthesised  *)
(* integer and whose duration is that integer; its modifiers are those of  *)
(* the tokens after that integer only.                                     *)
(***************************************************************************)
Parenthesised(items) == {k \in 1..Len(items) : items[k].kind = "int"}

C27_TitleUpToLastInteger ==
    (parser # <<>> /\ parser[1].stage = "matched"
        /\ Cardinality(Parenthesised(parser[1].text.items)) > 1) =>
        LET items == parser[1].text.items
            last == SetMax(Parenthesised(items))
        IN  /\ parser[1].task # <<>>
            /\ parser[1].task[1].title = SubSeq(items, 1, last - 1)
            /\ parser[1].task[1].duration = items[last].n
            /\ SameModifiers(parser[1].task[1],
                   parseModifiers(MODIFIER_REGEX(SubSeq(items, last + 1, Len(items)))))


(***************************************************************************)
(* C30. After every pushAction, undo, redo and clear the two stacks of an  *)
(* UndoManager hold together at most 50 actions; the redo stack is empty   *)
(* right after every pushAction; undo on an empty undo stack and redo on   *)
(* an empty redo stack return null and leave both stacks as they were.     *)
(***************************************************************************)
SameStacks ==
    /\ undoManager'.undoStack = undoManager.undoStack
    /\ undoManager'.redoStack = undoManager.redoStack

C30_UndoManagerStep ==
    /\ Len(undoManager'.undoStack) + Len(undoManager'.redoStack) <= 50
    /\ undoManager'.called = "pushAction" => undoManager'.redoStack = <<>>
    /\ (undoManager'.called = "undo" /\ undoManager.undoStack = <<>>) =>
           (undoManager'.returned = <<>> /\ SameStacks)
    /\ (undoManager'.called = "redo" /\ undoManager.redoStack = <<>>) =>
           (undoManager'.returned = <<>> /\ SameStacks)

C30_StacksBounded == [][C30_UndoManagerStep]_vars

\* the undo stack was full, pushAction dropped its oldest action, and the
\* two stacks hold 50 actions between them after an undo
C30_Witness ==
    /\ undoManager.shifted
    /\ undoManager.called = "undo"
    /\ undoManager.returned # <<>>
    /\ Len(undoManager.undoStack) + 1 = maxStackSize
    /\ Len(undoManager.redoStack) = 1


(***************************************************************************)
(* C29. A write FileSync itself makes to the watched file never leads to   *)
(* onFileChanged: whatever the interleaving of its update operations,      *)
(* their flag-reset timers and the vault's modify events, the listener     *)
(* sees isUpdatingFile set at every such event, so that the debounce timer *)
(* is never started and the callback never called.  All writes here are    *)
(* FileSync's own.                                                         *)
(***************************************************************************)
C29_OwnWritesUnnoticed ==
    /\ ~fileSync.debounceTimer
    /\ ~fileSync.onFileChanged


(***************************************************************************)
(* C28. Undo restores what the action found: when handleUndo has undone a  *)
(* committed drag that changed the start date or the duration of a task,   *)
(* the line of the task in the file carries the start date and the         *)
(* duration of the action's before snapshot; when handleRedo has redone    *)
(* it, the line carries those of its after snapshot.                       *)
(***************************************************************************)
\* the task an action names, as the Parser reads it from the file
HasLine(action) ==
    /\ action.taskId[1] + 1 <= Len(ParseFrom(vault, 1, <<>>, <<>>))
    /\ action.taskId[2] + 1
           <= Len(ParseFrom(vault, 1, <<>>, <<>>)[action.taskId[1] + 1].tasks)

LineOfAction(action) ==
    ParseFrom(vault, 1, <<>>, <<>>)[action.taskId[1] + 1].tasks[action.taskId[2] + 1]

\* every handler has returned
Settled == pc = "done" /\ fileSync.updates = <<>>

Carries(action, snapshot) ==
    /\ LineOfAction(action).duration = action[snapshot].duration
    /\ LineOfAction(action).explicitStartDate = <<action[snapshot].startDate>>

C28_UndoRestoresLine ==
    \A action \in Range(undoManager.returned) :
        (Settled /\ HasLine(action) /\ action.before # action.after) =>
            /\ undoManager.called = "undo" => Carries(action, "before")
            /\ undoManager.called = "redo" => Carries(action, "after")

====
